---------------------------- MODULE Spec2Model ----------------------------
(***************************************************************************)
(* TradSimpChinese (plugin.py): the criteria resolver (get_configuration,  *)
(* get_language_code, getCriteria), the streaming markup transformer       *)
(* (HTML_TextProcessor) and the run orchestration (_ok_clicked,            *)
(* process_files).                                                         *)
(*                                                                         *)
(* Text is a sequence of code-point tokens ("U300C" is the glyph U+300C);  *)
(* a document is a sequence of markup nodes; the literal text of a node    *)
(* and every emitted fragment is a sequence of tokens, so that string      *)
(* equality of documents is equality of the flattened token sequences.     *)
(***************************************************************************)
EXTENDS Integers, Sequences, FiniteSets, TLC

VARIABLES
    pc,              \* position of the modelled flow
    criteria,        \* the criteria tuple handed to the resolver / built by getCriteria
    configuration,   \* result of get_configuration (_ok_clicked: conversion)
    language_code,   \* result of get_language_code (_ok_clicked: self.language)
    parser,          \* the HTML_TextProcessor object (with the converter it holds)
    rawdata,         \* the document fed to the parser so far, as its sequence of nodes
    htmlstr,         \* the string processText returned
    lastSentinel,    \* history: the last sentinel comment met in rawdata
    prefs,           \* guiTradSimpChinese.prefs, as savePrefs leaves them
    bk,              \* the book container
    filesChanged,    \* guiTradSimpChinese.filesChanged
    changed_files,   \* guiTradSimpChinese.changed_files
    dlg,             \* the ShowProgressDialog of a whole-book run
    sel_pos,         \* process_files: position in bk.selected_iter()
    dialogs,         \* history: the message boxes shown
    log              \* history: the container writes and collaborator calls

vars == <<pc, criteria, configuration, language_code, parser, rawdata, htmlstr,
          lastSentinel, prefs, bk, filesChanged, changed_files, dlg, sel_pos, dialogs, log>>

\* the state of a run on a book
runvars == <<prefs, bk, filesChanged, changed_files, dlg, sel_pos, dialogs, log>>

\* the state of a single processText call fed node by node
feedvars == <<rawdata, htmlstr, lastSentinel>>

-----------------------------------------------------------------------------
(* Bounds of the model *)

\* longest document, in nodes
MaxDocLen == 2

-----------------------------------------------------------------------------
(* Indices into the criteria tuple, plugin.py 45-54 *)

INPUT_SOURCE == 0
CONVERSION_TYPE == 1
INPUT_LOCALE == 2
OUTPUT_LOCALE == 3
USE_TARGET_PHRASES == 4
QUOTATION_TYPE == 5
OUTPUT_ORIENTATION == 6
UPDATE_PUNCTUATION == 7
PUNC_DICT == 8
PUNC_REGEX == 9

\* Python's None where a string is expected, and the string 'None' that
\* get_language_code returns and f'{None}' formats to
None == "None"

seltext_start_tag == "PI_SELTEXT_START"

seltext_end_tag == "PI_SELTEXT_END"

\* horizontal full-width marks to their vertical presentation forms
_h2v_master_dict ==
    "U3002" :> "UFE12" @@ "U3001" :> "UFE11" @@ "UFF1B" :> "UFE14" @@ "UFF1A" :> "UFE13" @@
    "UFF01" :> "UFE15" @@ "UFF1F" :> "UFE16" @@ "U300C" :> "UFE41" @@ "U300D" :> "UFE42" @@
    "U3008" :> "UFE3F" @@ "U3009" :> "UFE40" @@ "U300E" :> "UFE43" @@ "U300F" :> "UFE44" @@
    "U300A" :> "UFE3D" @@ "U300B" :> "UFE3E" @@ "U3010" :> "UFE3B" @@ "UFF08" :> "UFE35" @@
    "U3011" :> "UFE3C" @@ "UFF09" :> "UFE36" @@ "U3016" :> "UFE17" @@ "U3017" :> "UFE18" @@
    "U3014" :> "UFE39" @@ "UFF5B" :> "UFE37" @@ "U3015" :> "UFE3A" @@ "UFF5D" :> "UFE38" @@
    "UFF3B" :> "UFE47" @@ "UFF3D" :> "UFE48" @@ "U2026" :> "UFE19" @@ "U2025" :> "UFE30" @@
    "U2014" :> "UFE31" @@ "UFF3F" :> "UFE33" @@ "UFE4F" :> "UFE34" @@ "UFF0C" :> "UFE10"

\* the marks omitted by default
PUNC_OMITS ==
    {"U3002", "U3001", "UFF1B", "UFF1A", "UFF01", "UFF1F", "U2026", "U2025", "UFF3F",
     "UFE4F", "UFF0C"}

\* the East-Asian corner brackets to the Western quotes
trad_to_simp_quotes ==
    "U300C" :> "U201C" @@ "U300D" :> "U201D" @@ "U300E" :> "U2018" @@ "U300F" :> "U2019"

\* the Western quotes to the East-Asian corner brackets
simp_to_trad_quotes ==
    "U201C" :> "U300C" @@ "U201D" :> "U300D" @@ "U2018" :> "U300E" @@ "U2019" :> "U300F"

\* a compiled alternation over a set of keys; NoRegex is Python's None in
\* the PUNC_REGEX slot
Regex(keys) == [compiled |-> TRUE, keys |-> keys]

NoRegex == [compiled |-> FALSE, keys |-> {}]

\* the empty dict {}
EmptyDict == [k \in {} |-> None]

\* the criteria tuple, indexed 0..9
MkCriteria(src, mode, inl, outl, phr, quo, ori, upd, pdict, pregex) ==
    [i \in 0..9 |->
        CASE i = INPUT_SOURCE -> src
          [] i = CONVERSION_TYPE -> mode
          [] i = INPUT_LOCALE -> inl
          [] i = OUTPUT_LOCALE -> outl
          [] i = USE_TARGET_PHRASES -> phr
          [] i = QUOTATION_TYPE -> quo
          [] i = OUTPUT_ORIENTATION -> ori
          [] i = UPDATE_PUNCTUATION -> upd
          [] i = PUNC_DICT -> pdict
          [] OTHER -> pregex]

\* criteria = None: no criteria tuple has been stored yet. Written as a
\* tuple of no settings so that it can be compared with a stored one
NoCriteria == MkCriteria(-1, -1, -1, -1, FALSE, -1, -1, FALSE, EmptyDict, NoRegex)

-----------------------------------------------------------------------------
(* ConversionResolver *)

\* a slip in the Taiwan branch: the phrased suffix is never added
trad_to_simp_no_phrasing(input_type, output_type, use_target_phrasing) ==
    IF input_type = 0 THEN
        IF output_type = 0 THEN "t2s"
        ELSE IF output_type = 3 THEN "t2jp"
        ELSE "unsupported_conversion"
    ELSE IF input_type = 1 THEN
        IF output_type /= 0 THEN "unsupported_conversion" ELSE "hk2s"
    ELSE IF input_type = 2 THEN
        IF output_type /= 0 THEN "unsupported_conversion" ELSE "tw2s"
    ELSE "unsupported_conversion"

\* get_configuration, conversion_mode == 1
trad_to_simp(input_type, output_type, use_target_phrasing) ==
    IF input_type = 0 THEN
        IF output_type = 0 THEN "t2s"
        ELSE IF output_type = 3 THEN "t2jp"
        ELSE "unsupported_conversion"
    ELSE IF input_type = 1 THEN
        IF output_type /= 0 THEN "unsupported_conversion" ELSE "hk2s"
    ELSE IF input_type = 2 THEN
        IF output_type /= 0 THEN "unsupported_conversion"
        ELSE IF use_target_phrasing THEN "tw2sp" ELSE "tw2s"
    ELSE "unsupported_conversion"

\* a slip in the Japan branch: the output locale is not examined
simp_to_trad_japan_any_output(input_type, output_type, use_target_phrasing) ==
    IF input_type = 0 THEN
        IF output_type = 0 THEN "s2t"
        ELSE IF output_type = 1 THEN "s2hk"
        ELSE IF output_type = 2 THEN
            IF use_target_phrasing THEN "s2twp" ELSE "s2tw"
        ELSE "unsupported_conversion"
    ELSE IF input_type = 3 THEN "jp2t"
    ELSE "unsupported_conversion"

\* get_configuration, conversion_mode == 2
simp_to_trad(input_type, output_type, use_target_phrasing) ==
    IF input_type = 0 THEN
        IF output_type = 0 THEN "s2t"
        ELSE IF output_type = 1 THEN "s2hk"
        ELSE IF output_type = 2 THEN
            IF use_target_phrasing THEN "s2twp" ELSE "s2tw"
        ELSE "unsupported_conversion"
    ELSE IF input_type = 3 THEN
        IF output_type = 0 THEN "jp2t" ELSE "unsupported_conversion"
    ELSE "unsupported_conversion"

\* a slip in the Hong Kong branch: the same-locale case is missing
trad_to_trad_hk_same_missing(input_type, output_type) ==
    IF input_type = 0 THEN
        IF output_type = 0 THEN "no_conversion"
        ELSE IF output_type = 1 THEN "t2hk"
        ELSE IF output_type = 2 THEN "t2tw"
        ELSE "unsupported_conversion"
    ELSE IF input_type = 1 THEN
        IF output_type = 0 THEN "hk2t" ELSE "unsupported_conversion"
    ELSE IF input_type = 2 THEN
        IF output_type = 0 THEN "tw2t"
        ELSE IF output_type = 2 THEN "no_conversion"
        ELSE "unsupported_conversion"
    ELSE "unsupported_conversion"

\* get_configuration, the remaining modes (trad to trad)
trad_to_trad(input_type, output_type) ==
    IF input_type = 0 THEN
        IF output_type = 0 THEN "no_conversion"
        ELSE IF output_type = 1 THEN "t2hk"
        ELSE IF output_type = 2 THEN "t2tw"
        ELSE "unsupported_conversion"
    ELSE IF input_type = 1 THEN
        IF output_type = 0 THEN "hk2t"
        ELSE IF output_type = 1 THEN "no_conversion"
        ELSE "unsupported_conversion"
    ELSE IF input_type = 2 THEN
        IF output_type = 0 THEN "tw2t"
        ELSE IF output_type = 2 THEN "no_conversion"
        ELSE "unsupported_conversion"
    ELSE "unsupported_conversion"

get_configuration(c) ==
    LET conversion_mode == c[CONVERSION_TYPE]
        input_type == c[INPUT_LOCALE]
        output_type == c[OUTPUT_LOCALE]
        use_target_phrasing == c[USE_TARGET_PHRASES]
    IN  IF conversion_mode = 0 THEN "no_conversion"
        ELSE IF conversion_mode = 1
        THEN trad_to_simp(input_type, output_type, use_target_phrasing)
        ELSE IF conversion_mode = 2
        THEN simp_to_trad(input_type, output_type, use_target_phrasing)
        ELSE trad_to_trad(input_type, output_type)

\* a slip in the simp-to-trad branch: the Hong Kong and Taiwan tags swapped
get_language_code_swapped(c) ==
    LET conversion_mode == c[CONVERSION_TYPE]
        input_type == c[INPUT_LOCALE]
        output_type == c[OUTPUT_LOCALE]
    IN  IF conversion_mode = 1 THEN
            IF output_type = 0 THEN "zh-CN" ELSE None
        ELSE IF conversion_mode = 2 THEN
            IF output_type = 0 THEN "zh-CN"
            ELSE IF output_type = 1 THEN "zh-TW"
            ELSE "zh-HK"
        ELSE IF conversion_mode = 3 THEN
            IF input_type = 0 THEN
                IF output_type = 1 THEN "zh-HK"
                ELSE IF output_type = 2 THEN "zh-TW"
                ELSE None
            ELSE IF input_type = 1 THEN
                IF output_type = 0 THEN "zh-CN" ELSE None
            ELSE IF input_type = 2 THEN
                IF output_type = 0 THEN "zh-CN" ELSE None
            ELSE None
        ELSE None

\* a slip in the trad-to-trad branch: the tag of the input locale is returned
get_language_code_input_tag(c) ==
    LET conversion_mode == c[CONVERSION_TYPE]
        input_type == c[INPUT_LOCALE]
        output_type == c[OUTPUT_LOCALE]
    IN  IF conversion_mode = 1 THEN
            IF output_type = 0 THEN "zh-CN" ELSE None
        ELSE IF conversion_mode = 2 THEN
            IF output_type = 0 THEN "zh-CN"
            ELSE IF output_type = 1 THEN "zh-HK"
            ELSE "zh-TW"
        ELSE IF conversion_mode = 3 THEN
            IF input_type = 0 THEN
                IF output_type = 1 THEN "zh-HK"
                ELSE IF output_type = 2 THEN "zh-TW"
                ELSE None
            ELSE IF input_type = 1 THEN
                IF output_type = 0 THEN "zh-HK" ELSE None
            ELSE IF input_type = 2 THEN
                IF output_type = 0 THEN "zh-TW" ELSE None
            ELSE None
        ELSE None

get_language_code(c) ==
    LET conversion_mode == c[CONVERSION_TYPE]
        input_type == c[INPUT_LOCALE]
        output_type == c[OUTPUT_LOCALE]
    IN  IF conversion_mode = 1 THEN
            IF output_type = 0 THEN "zh-CN" ELSE None
        ELSE IF conversion_mode = 2 THEN
            IF output_type = 0 THEN "zh-CN"
            ELSE IF output_type = 1 THEN "zh-HK"
            ELSE "zh-TW"
        ELSE IF conversion_mode = 3 THEN
            IF input_type = 0 THEN
                IF output_type = 1 THEN "zh-HK"
                ELSE IF output_type = 2 THEN "zh-TW"
                ELSE None
            ELSE IF input_type = 1 THEN
                IF output_type = 0 THEN "zh-CN" ELSE None
            ELSE IF input_type = 2 THEN
                IF output_type = 0 THEN "zh-CN" ELSE None
            ELSE None
        ELSE None


-----------------------------------------------------------------------------
(* PunctuationMapper: guiTradSimpChinese.getCriteria *)

\* {v: k for k, v in d.items()}
InverseDict(d) ==
    [v \in {d[k] : k \in DOMAIN d} |-> CHOOSE k \in DOMAIN d : d[k] = v]

\* a slip in getCriteria: the two directions exchanged
getCriteria_directions_exchanged(p) ==
    LET build == p.update_punctuation
                 /\ Cardinality(p.punc_omits) /= Cardinality(DOMAIN _h2v_master_dict)
        h2v == [key \in (DOMAIN _h2v_master_dict) \ p.punc_omits |-> _h2v_master_dict[key]]
        v2h == InverseDict(h2v)
        punc_dict == IF build /\ p.output_orientation = 2 THEN v2h
                     ELSE IF build /\ p.output_orientation = 1 THEN h2v
                     ELSE EmptyDict
        punc_regex == IF build /\ p.output_orientation = 2 THEN Regex(DOMAIN v2h)
                      ELSE IF build /\ p.output_orientation = 1 THEN Regex(DOMAIN h2v)
                      ELSE NoRegex
    IN  MkCriteria(p.input_source, p.conversion_type, p.input_locale, p.output_locale,
                   p.use_target_phrases, p.quotation_type, p.output_orientation,
                   p.update_punctuation, punc_dict, punc_regex)

getCriteria(p) ==
    LET build == p.update_punctuation
                 /\ Cardinality(p.punc_omits) /= Cardinality(DOMAIN _h2v_master_dict)
        h2v == [key \in (DOMAIN _h2v_master_dict) \ p.punc_omits |-> _h2v_master_dict[key]]
        v2h == InverseDict(h2v)
        punc_dict == IF build /\ p.output_orientation = 1 THEN v2h
                     ELSE IF build /\ p.output_orientation = 2 THEN h2v
                     ELSE EmptyDict
        punc_regex == IF build /\ p.output_orientation = 1 THEN Regex(DOMAIN v2h)
                      ELSE IF build /\ p.output_orientation = 2 THEN Regex(DOMAIN h2v)
                      ELSE NoRegex
    IN  MkCriteria(p.input_source, p.conversion_type, p.input_locale, p.output_locale,
                   p.use_target_phrases, p.quotation_type, p.output_orientation,
                   p.update_punctuation, punc_dict, punc_regex)

-----------------------------------------------------------------------------
(* Converter collaborator (opencc_python.OpenCC): a fixed-table stand-in.   *)
(* The simplifying variants map U+8ECA to U+8F66, the traditionalising      *)
(* variants map it back, every other glyph is left alone.                   *)

ToSimplified == {"t2s", "hk2s", "tw2s", "tw2sp", "t2jp"}

ToTraditional == {"s2t", "s2hk", "s2tw", "s2twp", "jp2t"}

ConvertChar(variant, ch) ==
    IF variant \in ToSimplified /\ ch = "U8ECA" THEN "U8F66"
    ELSE IF variant \in ToTraditional /\ ch = "U8F66" THEN "U8ECA"
    ELSE ch

\* OpenCC.convert(text) under the table chosen by set_conversion
convert(variant, text) == [i \in 1..Len(text) |-> ConvertChar(variant, text[i])]

-----------------------------------------------------------------------------
(* Markup nodes and their literal text (html.parser.HTMLParser events) *)

Node(kind, tag, attrs, data) == [kind |-> kind, tag |-> tag, attrs |-> attrs, data |-> data]

\* an attribute as written: optional "xml:" prefix and the rest of its text
Attr(ns, body) == [ns |-> ns, body |-> body]

\* the attribute name the parser reports for an attribute text (lower-cased)
BodyKey(body) ==
    IF body \in {"lang=\"zh\"", "lang=\"zh-TW\"", "LANG=\"ZH\"", "lang=\"zh-CN\"",
                 "lang=\"zh-HK\"", "lang=\"en\""} THEN "lang"
    ELSE IF body = "class=\"c\"" THEN "class"
    ELSE "none"

AttrName(a) == <<a.ns, BodyKey(a.body)>>

RECURSIVE AttrsText(_)
AttrsText(attrs) ==
    IF attrs = <<>> THEN <<>>
    ELSE (IF Head(attrs).ns = "" THEN <<" ", Head(attrs).body>>
          ELSE <<" ", Head(attrs).ns, Head(attrs).body>>) \o AttrsText(Tail(attrs))

\* HTMLParser lower-cases tag names
Lower(name) == IF name = "P" THEN "p" ELSE IF name = "HEAD" THEN "head" ELSE name

\* the source text of a node
Literal(n) ==
    CASE n.kind = "starttag" -> <<"<", n.tag>> \o AttrsText(n.attrs) \o <<">">>
      [] n.kind = "startendtag" -> <<"<", n.tag>> \o AttrsText(n.attrs) \o <<"/>">>
      [] n.kind = "endtag" -> <<"</", n.tag, ">">>
      [] n.kind = "data" -> n.data
      [] n.kind = "comment" -> <<"<!--">> \o n.data \o <<"-->">>
      [] n.kind = "pi" -> <<"<?">> \o n.data \o <<">">>
      [] n.kind = "entityref" -> <<"&">> \o n.data \o <<";">>
      [] n.kind = "charref" -> <<"&#">> \o n.data \o <<";">>
      [] n.kind = "decl" -> <<"<!">> \o n.data \o <<">">>
      [] OTHER -> <<"<![">> \o n.data \o <<"]]>">>

RECURSIVE Join(_)
\* "".join(fragments)
Join(frags) == IF frags = <<>> THEN <<>> ELSE Head(frags) \o Join(Tail(frags))

\* the document text of a node sequence
DocText(nodes) == Join([i \in 1..Len(nodes) |-> Literal(nodes[i])])

\* str.isspace() on a non-empty text
WhiteSpace == {"U0020", "U000A"}

isspace(text) == text /= <<>> /\ \A i \in 1..Len(text) : text[i] \in WhiteSpace

RECURSIVE lstrip(_)
lstrip(text) ==
    IF text /= <<>> /\ Head(text) \in WhiteSpace THEN lstrip(Tail(text)) ELSE text

RECURSIVE rstrip(_)
rstrip(text) ==
    IF text /= <<>> /\ text[Len(text)] \in WhiteSpace
    THEN rstrip(SubSeq(text, 1, Len(text) - 1)) ELSE text

\* str.strip()
strip(text) == rstrip(lstrip(text))


-----------------------------------------------------------------------------
(* HTMLParser's tokenisation of a document text into the events it reports *)

\* the tokens that open a markup construct
Openers == {"<", "</", "<!--", "<?", "&", "&#", "<!", "<!["}

\* the first position from i on that holds one of the tokens, or Len + 1
IndexOf(toks, i, stops) ==
    IF \E j \in i..Len(toks) : toks[j] \in stops
    THEN CHOOSE j \in i..Len(toks) :
            /\ toks[j] \in stops
            /\ \A k \in i..(j - 1) : toks[k] \notin stops
    ELSE Len(toks) + 1

RECURSIVE ParseAttrs(_)
\* the attributes written between the tag name and the closing bracket
ParseAttrs(toks) ==
    IF Len(toks) < 2 THEN <<>>
    ELSE IF toks[2] = "xml:" /\ Len(toks) >= 3
    THEN <<Attr("xml:", toks[3])>> \o ParseAttrs(SubSeq(toks, 4, Len(toks)))
    ELSE <<Attr("", toks[2])>> \o ParseAttrs(SubSeq(toks, 3, Len(toks)))

RECURSIVE ParseFrom(_, _)
ParseFrom(toks, i) ==
    IF i > Len(toks) THEN <<>>
    ELSE LET t == toks[i] IN
        CASE t = "<" ->
                LET j == IndexOf(toks, i, {">", "/>"})
                    kind == IF j <= Len(toks) /\ toks[j] = "/>" THEN "startendtag"
                            ELSE "starttag"
                IN  <<Node(kind, toks[i + 1], ParseAttrs(SubSeq(toks, i + 2, j - 1)), <<>>)>>
                    \o ParseFrom(toks, j + 1)
          [] t = "</" ->
                <<Node("endtag", toks[i + 1], <<>>, <<>>)>> \o ParseFrom(toks, i + 3)
          [] t = "<!--" ->
                LET j == IndexOf(toks, i, {"-->"})
                IN  <<Node("comment", "", <<>>, SubSeq(toks, i + 1, j - 1))>>
                    \o ParseFrom(toks, j + 1)
          [] t = "<?" ->
                LET j == IndexOf(toks, i, {">"})
                IN  <<Node("pi", "", <<>>, SubSeq(toks, i + 1, j - 1))>>
                    \o ParseFrom(toks, j + 1)
          [] t = "&" ->
                <<Node("entityref", "", <<>>, <<toks[i + 1]>>)>> \o ParseFrom(toks, i + 3)
          [] t = "&#" ->
                <<Node("charref", "", <<>>, <<toks[i + 1]>>)>> \o ParseFrom(toks, i + 3)
          [] t = "<!" ->
                \* a doctype is a declaration; anything else is a bogus comment
                LET j == IndexOf(toks, i, {">"})
                    data == SubSeq(toks, i + 1, j - 1)
                IN  <<Node(IF data = <<"DOCTYPE html">> THEN "decl" ELSE "comment",
                           "", <<>>, data)>>
                    \o ParseFrom(toks, j + 1)
          [] t = "<![" ->
                LET j == IndexOf(toks, i, {"]]>"})
                IN  <<Node("unknown_decl", "", <<>>, SubSeq(toks, i + 1, j - 1))>>
                    \o ParseFrom(toks, j + 1)
          [] OTHER ->
                LET j == IndexOf(toks, i, Openers)
                IN  <<Node("data", "", <<>>, SubSeq(toks, i, j - 1))>>
                    \o ParseFrom(toks, j)

\* the events of a document text, in order
Parse(toks) == ParseFrom(toks, 1)

-----------------------------------------------------------------------------
(* HTML_TextProcessor *)

\* the attribute texts that zh_re (lang="zh-\w+"|lang="zh", IGNORECASE) matches
zh_re == {"lang=\"zh\"", "lang=\"zh-TW\"", "LANG=\"ZH\"", "lang=\"zh-CN\"", "lang=\"zh-HK\""}

\* zh_re.sub(repl, text)
zh_re_sub(repl, text) ==
    [i \in 1..Len(text) |-> IF text[i] \in zh_re THEN repl ELSE text[i]]

\* HTML_TextProcessor.__init__
NewParser ==
    [criteria |-> NoCriteria, converting |-> TRUE, language |-> None,
     force_stylesheet |-> FALSE, result |-> <<>>,
     conversion |-> None, convert_calls |-> <<>>, text |-> <<>>]

setLanguageAttribute(self, lang) == [self EXCEPT !.language = lang]

\* OpenCC.set_conversion on the converter the parser holds
set_conversion(self, variant) == [self EXCEPT !.conversion = variant]

replace_quotations(self, data) ==
    IF self.criteria[QUOTATION_TYPE] = 1 THEN
        [i \in 1..Len(data) |->
            IF data[i] \in DOMAIN trad_to_simp_quotes THEN trad_to_simp_quotes[data[i]]
            ELSE data[i]]
    ELSE IF self.criteria[QUOTATION_TYPE] = 2 THEN
        [i \in 1..Len(data) |->
            IF data[i] \in DOMAIN simp_to_trad_quotes THEN simp_to_trad_quotes[data[i]]
            ELSE data[i]]
    ELSE data

multiple_replace(replace_regex, replace_dict, text) ==
    [i \in 1..Len(text) |->
        IF text[i] \in replace_regex.keys THEN replace_dict[text[i]] ELSE text[i]]

handle_starttag(self, n) ==
    LET tag == Lower(n.tag)
        starttag_text == Literal(n)
        text == IF self.converting /\ self.criteria[CONVERSION_TYPE] /= 0
                   /\ self.language /= None
                THEN zh_re_sub(self.language, starttag_text)
                ELSE starttag_text
        attrs_list == {AttrName(n.attrs[i]) : i \in 1..Len(n.attrs)}
        text2 == IF tag = "html" /\ <<"xml:", "lang">> \notin attrs_list
                 THEN SubSeq(text, 1, Len(text) - 1) \o <<" ", "xml:", self.language>> \o <<">">>
                 ELSE text
    IN  [self EXCEPT !.result = Append(@, text2)]

\* the <link> element forced before </head>
StylesheetLink ==
    Literal(Node("startendtag", "link",
                 <<Attr("", "rel=\"stylesheet\""), Attr("", "type=\"text/css\""),
                   Attr("", "href=\"./Styles/stylesheet.css\"")>>, <<>>))

handle_endtag(self, n) ==
    LET tag == Lower(n.tag)
        linked == IF tag = "head" /\ self.force_stylesheet
                  THEN Append(self.result, StylesheetLink) ELSE self.result
    IN  [self EXCEPT !.result = Append(linked, <<"</", tag, ">">>)]

handle_startendtag(self, n) ==
    IF self.criteria[INPUT_SOURCE] = 0 /\ self.criteria[CONVERSION_TYPE] /= 0
       /\ self.language /= None
    THEN [self EXCEPT !.result = Append(@, zh_re_sub(self.language, Literal(n)))]
    ELSE [self EXCEPT !.result = Append(@, Literal(n))]

\* a slip in the whitespace test: a whitespace-only run is treated as text
handle_data_no_space_test(self, n) ==
    LET text == n.data
        ori == self.criteria[OUTPUT_ORIENTATION]
        quo == self.criteria[QUOTATION_TYPE]
        t1 == IF self.converting /\ (ori = 0 \/ ori = 2) /\ quo /= 0
              THEN replace_quotations(self, text) ELSE text
        t2 == IF self.converting /\ self.criteria[PUNC_REGEX] /= NoRegex
              THEN multiple_replace(self.criteria[PUNC_REGEX], self.criteria[PUNC_DICT], t1)
              ELSE t1
        t3 == IF self.converting /\ ori = 1 /\ quo /= 0
              THEN replace_quotations(self, t2) ELSE t2
    IN  IF self.criteria[CONVERSION_TYPE] /= 0 /\ self.converting
        THEN [self EXCEPT !.result = Append(@, convert(self.conversion, t3)),
                          !.convert_calls = Append(@, t3), !.text = t3]
        ELSE [self EXCEPT !.result = Append(@, t3), !.text = t3]

\* a slip in the converter call: the run is converted as it was read, before
\* the quote and punctuation passes
handle_data_converts_raw(self, n) ==
    LET text == n.data
        ori == self.criteria[OUTPUT_ORIENTATION]
        quo == self.criteria[QUOTATION_TYPE]
        c0 == IF self.criteria[CONVERSION_TYPE] /= 0 /\ self.converting
              THEN convert(self.conversion, text) ELSE text
        t1 == IF self.converting /\ (ori = 0 \/ ori = 2) /\ quo /= 0
              THEN replace_quotations(self, c0) ELSE c0
        t2 == IF self.converting /\ self.criteria[PUNC_REGEX] /= NoRegex
              THEN multiple_replace(self.criteria[PUNC_REGEX], self.criteria[PUNC_DICT], t1)
              ELSE t1
        t3 == IF self.converting /\ ori = 1 /\ quo /= 0
              THEN replace_quotations(self, t2) ELSE t2
    IN  IF isspace(text) THEN [self EXCEPT !.result = Append(@, text), !.text = text]
        ELSE IF self.criteria[CONVERSION_TYPE] /= 0 /\ self.converting
        THEN [self EXCEPT !.result = Append(@, t3),
                          !.convert_calls = Append(@, text), !.text = t3]
        ELSE [self EXCEPT !.result = Append(@, t3), !.text = t3]

\* a slip in the pass order: quotes are always remapped before punctuation
handle_data_quotes_first(self, n) ==
    LET text == n.data
        quo == self.criteria[QUOTATION_TYPE]
        t1 == IF self.converting /\ quo /= 0
              THEN replace_quotations(self, text) ELSE text
        t2 == IF self.converting /\ self.criteria[PUNC_REGEX] /= NoRegex
              THEN multiple_replace(self.criteria[PUNC_REGEX], self.criteria[PUNC_DICT], t1)
              ELSE t1
    IN  IF isspace(text) THEN [self EXCEPT !.result = Append(@, text), !.text = text]
        ELSE IF self.criteria[CONVERSION_TYPE] /= 0 /\ self.converting
        THEN [self EXCEPT !.result = Append(@, convert(self.conversion, t2)),
                          !.convert_calls = Append(@, t2), !.text = t2]
        ELSE [self EXCEPT !.result = Append(@, t2), !.text = t2]

handle_data(self, n) ==
    LET text == n.data
        ori == self.criteria[OUTPUT_ORIENTATION]
        quo == self.criteria[QUOTATION_TYPE]
        t1 == IF self.converting /\ (ori = 0 \/ ori = 2) /\ quo /= 0
              THEN replace_quotations(self, text) ELSE text
        t2 == IF self.converting /\ self.criteria[PUNC_REGEX] /= NoRegex
              THEN multiple_replace(self.criteria[PUNC_REGEX], self.criteria[PUNC_DICT], t1)
              ELSE t1
        t3 == IF self.converting /\ ori = 1 /\ quo /= 0
              THEN replace_quotations(self, t2) ELSE t2
    IN  IF isspace(text) THEN [self EXCEPT !.result = Append(@, text), !.text = text]
        ELSE IF self.criteria[CONVERSION_TYPE] /= 0 /\ self.converting
        THEN [self EXCEPT !.result = Append(@, convert(self.conversion, t3)),
                          !.convert_calls = Append(@, t3), !.text = t3]
        ELSE [self EXCEPT !.result = Append(@, t3), !.text = t3]

\* a slip in the sentinel handling: a sentinel flips the flag instead of
\* setting it
handle_comment_toggles(self, n) ==
    LET data == n.data
        emitted == Append(self.result, <<"<!--">> \o data \o <<"-->">>)
    IN  IF self.criteria[INPUT_SOURCE] = 2
           /\ strip(data) \in {<<seltext_start_tag>>, <<seltext_end_tag>>}
        THEN [self EXCEPT !.converting = ~self.converting, !.result = emitted]
        ELSE [self EXCEPT !.result = emitted]

\* a slip in the sentinel handling: the two assignments exchanged
handle_comment_inverted(self, n) ==
    LET data == n.data
        emitted == Append(self.result, <<"<!--">> \o data \o <<"-->">>)
    IN  IF self.criteria[INPUT_SOURCE] = 2 /\ strip(data) = <<seltext_start_tag>>
        THEN [self EXCEPT !.converting = FALSE, !.result = emitted]
        ELSE IF self.criteria[INPUT_SOURCE] = 2 /\ strip(data) = <<seltext_end_tag>>
        THEN [self EXCEPT !.converting = TRUE, !.result = emitted]
        ELSE [self EXCEPT !.result = emitted]

handle_comment(self, n) ==
    LET data == n.data
        emitted == Append(self.result, <<"<!--">> \o data \o <<"-->">>)
    IN  IF self.criteria[INPUT_SOURCE] = 2 /\ strip(data) = <<seltext_start_tag>>
        THEN [self EXCEPT !.converting = TRUE, !.result = emitted]
        ELSE IF self.criteria[INPUT_SOURCE] = 2 /\ strip(data) = <<seltext_end_tag>>
        THEN [self EXCEPT !.converting = FALSE, !.result = emitted]
        ELSE [self EXCEPT !.result = emitted]

handle_pi(self, n) == [self EXCEPT !.result = Append(@, <<"<?">> \o n.data \o <<">">>)]

handle_entityref(self, n) == [self EXCEPT !.result = Append(@, <<"&">> \o n.data \o <<";">>)]

handle_charref(self, n) == [self EXCEPT !.result = Append(@, <<"&#">> \o n.data \o <<";">>)]

handle_decl(self, n) == [self EXCEPT !.result = Append(@, <<"<!">> \o n.data \o <<">">>)]

unknown_decl(self, n) == [self EXCEPT !.result = Append(@, <<"<!">> \o n.data \o <<">">>)]

\* HTMLParser.goahead: the handler called for one node
goahead(self, n) ==
    CASE n.kind = "starttag" -> handle_starttag(self, n)
      [] n.kind = "startendtag" -> handle_startendtag(self, n)
      [] n.kind = "endtag" -> handle_endtag(self, n)
      [] n.kind = "data" -> handle_data(self, n)
      [] n.kind = "comment" -> handle_comment(self, n)
      [] n.kind = "pi" -> handle_pi(self, n)
      [] n.kind = "entityref" -> handle_entityref(self, n)
      [] n.kind = "charref" -> handle_charref(self, n)
      [] n.kind = "decl" -> handle_decl(self, n)
      [] OTHER -> unknown_decl(self, n)

RECURSIVE feed(_, _)
\* HTMLParser.feed over a whole document
feed(self, data) ==
    IF data = <<>> THEN self ELSE feed(goahead(self, Head(data)), Tail(data))

\* a slip in processText: the converting flag is left as the previous call
\* left it
processText_reset_keeps_flag(self, crit) ==
    [self EXCEPT !.criteria = crit, !.result = <<>>]

\* processText up to feed(): criteria stored, result cleared, converting reset
processText_reset(self, crit) ==
    [self EXCEPT !.criteria = crit, !.result = <<>>,
                 !.converting = (crit[INPUT_SOURCE] /= 2)]

\* processText as one call: the parser afterwards and the returned string
processText(self, data, crit) ==
    LET after == feed(processText_reset(self, crit), Parse(data))
    IN  [self |-> after, htmlstr |-> Join(after.result)]


-----------------------------------------------------------------------------
(* Inputs drawn by the specifications *)

\* the documents' nodes
StartTags ==
    {Node("starttag", "html", <<>>, <<>>),
     Node("starttag", "html", <<Attr("xml:", "lang=\"zh-TW\"")>>, <<>>),
     Node("starttag", "html", <<Attr("", "lang=\"zh\"")>>, <<>>),
     Node("starttag", "p", <<Attr("", "lang=\"zh\"")>>, <<>>)}

StartEndTags == {Node("startendtag", "br", <<Attr("", "lang=\"zh\"")>>, <<>>)}

EndTags == {Node("endtag", "head", <<>>, <<>>), Node("endtag", "P", <<>>, <<>>)}

Comments ==
    {Node("comment", "", <<>>, <<seltext_start_tag>>),
     Node("comment", "", <<>>, <<"U0020", seltext_end_tag, "U0020">>),
     Node("comment", "", <<>>, <<"note">>)}

TextRuns ==
    {Node("data", "", <<>>, <<"U0020">>),
     Node("data", "", <<>>, <<"U201C">>),
     Node("data", "", <<>>, <<"U300C">>),
     Node("data", "", <<>>, <<"UFE41">>),
     Node("data", "", <<>>, <<"U8ECA">>),
     Node("data", "", <<>>, <<"U0020", "U3002">>)}

Pis == {Node("pi", "", <<>>, <<"xml version=\"1.0\"?">>)}

EntityRefs == {Node("entityref", "", <<>>, <<"amp">>)}

CharRefs == {Node("charref", "", <<>>, <<"x41">>)}

Decls == {Node("decl", "", <<>>, <<"DOCTYPE html">>)}

UnknownDecls == {Node("unknown_decl", "", <<>>, <<"CDATA[x">>)}

\* the values setLanguageAttribute receives: None or 'lang="' + code + '"'
LangAttr(code) == IF code = None THEN None ELSE "lang=\"" \o code \o "\""

LanguageAttrs == {None, LangAttr("zh-CN")}

\* the dialog settings, as savePrefs stores them
Prefs(src, mode, inl, outl, phr, quo, ori, upd, omits) ==
    [input_source |-> src, conversion_type |-> mode, input_locale |-> inl,
     output_locale |-> outl, use_target_phrases |-> phr, quotation_type |-> quo,
     output_orientation |-> ori, update_punctuation |-> upd, punc_omits |-> omits]

\* settings the transformer is exercised with (update_gui unchecks
\* "update punctuation" when the text direction is "no change")
ParserPrefs ==
    {Prefs(src, mode, 0, 0, FALSE, quo, ori, upd, PUNC_OMITS) :
        src \in 0..2, mode \in {0, 1}, quo \in 0..2,
        ori \in 0..2, upd \in BOOLEAN} \ {Prefs(src, mode, 0, 0, FALSE, quo, 0, TRUE, PUNC_OMITS) :
        src \in 0..2, mode \in {0, 1}, quo \in 0..2}

\* no ShowProgressDialog has been constructed
NoDialog ==
    [file_list |-> <<>>, clean |-> TRUE, changed_files |-> <<>>, total_count |-> 0,
     i |-> 0, value |-> 0, wasCanceled |-> FALSE, open |-> FALSE, scheduled |-> FALSE]

\* no run on a book is modelled: the run's state stays as constructed
NoRun ==
    /\ prefs = None
    /\ bk = None
    /\ filesChanged = FALSE
    /\ changed_files = <<>>
    /\ dlg = NoDialog
    /\ sel_pos = 0
    /\ dialogs = <<>>
    /\ log = <<>>

-----------------------------------------------------------------------------
(* SpecResolver: the resolver's pure functions applied to every selection *)

InitResolver ==
    /\ pc = "resolve"
    /\ criteria \in {MkCriteria(0, mode, inl, outl, phr, 0, 0, FALSE, EmptyDict, NoRegex) :
                        mode \in 0..3, inl \in 0..3, outl \in 0..3, phr \in BOOLEAN}
    /\ configuration = None
    /\ language_code = None
    /\ parser = NewParser
    /\ rawdata = <<>>
    /\ htmlstr = <<>>
    /\ lastSentinel = "none"
    /\ NoRun

ResolveConfiguration ==
    /\ pc = "resolve"
    /\ configuration' = get_configuration(criteria)
    /\ pc' = "have_configuration"
    /\ UNCHANGED <<criteria, language_code, parser, rawdata, htmlstr, lastSentinel, runvars>>

ResolveLanguage ==
    /\ pc = "have_configuration"
    /\ language_code' = get_language_code(criteria)
    /\ pc' = "resolved"
    /\ UNCHANGED <<criteria, configuration, parser, rawdata, htmlstr, lastSentinel, runvars>>

NextResolver == ResolveConfiguration \/ ResolveLanguage

SpecResolver == InitResolver /\ [][NextResolver]_vars

-----------------------------------------------------------------------------
(* SpecParser: one processText call on every document of at most MaxDocLen  *)
(* nodes, fed node by node                                                  *)

InitParser ==
    /\ pc = "idle"
    /\ criteria = NoCriteria
    /\ configuration = None
    /\ language_code = None
    /\ parser = NewParser
    /\ rawdata = <<>>
    /\ htmlstr = <<>>
    /\ lastSentinel = "none"
    /\ NoRun

\* the caller's preparation: getCriteria, setLanguageAttribute, set_conversion
ParserSetUp ==
    /\ pc = "idle"
    /\ \E p \in ParserPrefs, lang \in LanguageAttrs :
        /\ criteria' = getCriteria(p)
        /\ configuration' = get_configuration(getCriteria(p))
        /\ configuration' /= "unsupported_conversion"
        /\ parser' = set_conversion(setLanguageAttribute(parser, lang), configuration')
    /\ pc' = "ready"
    /\ UNCHANGED <<language_code, rawdata, htmlstr, lastSentinel, runvars>>

\* processText, lines 283-290
ProcessTextBegin ==
    /\ pc = "ready"
    /\ parser' = processText_reset(parser, criteria)
    /\ rawdata' = <<>>
    /\ lastSentinel' = "none"
    /\ pc' = "feeding"
    /\ UNCHANGED <<criteria, configuration, language_code, htmlstr, runvars>>

\* the parser meets node n and its handler leaves the parser as `after`
Feed(n, after) ==
    /\ pc = "feeding"
    /\ Len(rawdata) < MaxDocLen
    /\ parser' = after
    /\ rawdata' = Append(rawdata, n)
    /\ UNCHANGED <<pc, criteria, configuration, language_code, htmlstr, runvars>>

FeedStartTag ==
    \E n \in StartTags : Feed(n, handle_starttag(parser, n)) /\ UNCHANGED lastSentinel

FeedStartEndTag ==
    \E n \in StartEndTags : Feed(n, handle_startendtag(parser, n)) /\ UNCHANGED lastSentinel

FeedEndTag ==
    \E n \in EndTags : Feed(n, handle_endtag(parser, n)) /\ UNCHANGED lastSentinel

\* contiguous text reaches handle_data as one run
FeedData ==
    \E n \in TextRuns :
        /\ rawdata /= <<>> => rawdata[Len(rawdata)].kind /= "data"
        /\ Feed(n, handle_data(parser, n))
        /\ UNCHANGED lastSentinel

FeedComment ==
    \E n \in Comments :
        /\ Feed(n, handle_comment(parser, n))
        /\ lastSentinel' = IF strip(n.data) = <<seltext_start_tag>> THEN "start"
                           ELSE IF strip(n.data) = <<seltext_end_tag>> THEN "end"
                           ELSE lastSentinel

FeedPi == \E n \in Pis : Feed(n, handle_pi(parser, n)) /\ UNCHANGED lastSentinel

FeedEntityRef == \E n \in EntityRefs : Feed(n, handle_entityref(parser, n)) /\ UNCHANGED lastSentinel

FeedCharRef == \E n \in CharRefs : Feed(n, handle_charref(parser, n)) /\ UNCHANGED lastSentinel

FeedDecl == \E n \in Decls : Feed(n, handle_decl(parser, n)) /\ UNCHANGED lastSentinel

FeedUnknownDecl == \E n \in UnknownDecls : Feed(n, unknown_decl(parser, n)) /\ UNCHANGED lastSentinel

\* processText, lines 294-296: close() and the joined result
ProcessTextReturn ==
    /\ pc = "feeding"
    /\ htmlstr' = Join(parser.result)
    /\ pc' = "returned"
    /\ UNCHANGED <<criteria, configuration, language_code, parser, rawdata, lastSentinel, runvars>>

\* the caller hands the returned string to processText again, with the same
\* criteria and language attribute
ProcessTextAgain ==
    /\ pc = "returned"
    /\ \E r \in {processText(parser, htmlstr, criteria)} :
        /\ parser' = r.self
        /\ htmlstr' = r.htmlstr
    /\ rawdata' = Parse(htmlstr)
    /\ pc' = "reprocessed"
    /\ UNCHANGED <<criteria, configuration, language_code, lastSentinel, runvars>>

NextParser ==
    \/ ParserSetUp
    \/ ProcessTextBegin
    \/ FeedStartTag
    \/ FeedStartEndTag
    \/ FeedEndTag
    \/ FeedData
    \/ FeedComment
    \/ FeedPi
    \/ FeedEntityRef
    \/ FeedCharRef
    \/ FeedDecl
    \/ FeedUnknownDecl
    \/ ProcessTextReturn
    \/ ProcessTextAgain

SpecParser == InitParser /\ [][NextParser]_vars


-----------------------------------------------------------------------------
(* Properties of the resolver, checked under SpecResolver *)

\* the (input, output) locale pairs
LocalePairs == (0..3) \X (0..3)

\* the criteria at hand with another locale pair and phrasing flag
WithSelection(c, inl, outl, phr) ==
    [c EXCEPT ![INPUT_LOCALE] = inl, ![OUTPUT_LOCALE] = outl, ![USE_TARGET_PHRASES] = phr]

\* C4: in mode TradToSimp the resolver returns t2s for Mainland->Mainland,
\* t2jp for Mainland->Japan, hk2s for HongKong->Mainland, tw2s or (with
\* target phrasing) tw2sp for Taiwan->Mainland and unsupported_conversion
\* for each of the 12 other pairs; the phrasing flag matters for
\* Taiwan->Mainland only.
C4_TradToSimpTable ==
    (pc /= "resolve" /\ criteria[CONVERSION_TYPE] = 1) =>
        LET inl == criteria[INPUT_LOCALE]
            outl == criteria[OUTPUT_LOCALE]
            phr == criteria[USE_TARGET_PHRASES]
            unsupported == {pr \in LocalePairs :
                get_configuration(WithSelection(criteria, pr[1], pr[2], phr))
                    = "unsupported_conversion"}
        IN  /\ configuration =
                (CASE inl = 0 /\ outl = 0 -> "t2s"
                   [] inl = 0 /\ outl = 3 -> "t2jp"
                   [] inl = 1 /\ outl = 0 -> "hk2s"
                   [] inl = 2 /\ outl = 0 -> IF phr THEN "tw2sp" ELSE "tw2s"
                   [] OTHER -> "unsupported_conversion")
            /\ Cardinality(unsupported) = 12
            /\ (~(inl = 2 /\ outl = 0)) =>
                 get_configuration(WithSelection(criteria, inl, outl, ~phr)) = configuration

C4_Witness ==
    /\ pc = "resolved"
    /\ criteria[CONVERSION_TYPE] = 1
    /\ criteria[INPUT_LOCALE] = 2
    /\ criteria[OUTPUT_LOCALE] = 0
    /\ criteria[USE_TARGET_PHRASES]
    /\ configuration = "tw2sp"

\* C5: in mode SimpToTrad the resolver returns s2t, s2hk and s2tw (s2twp
\* with target phrasing) for Mainland to Mainland, HongKong and Taiwan,
\* jp2t for Japan->Mainland and unsupported_conversion for each of the 12
\* other pairs, among them every pair with HongKong or Taiwan as input and
\* Japan->HongKong.
C5_SimpToTradTable ==
    (pc /= "resolve" /\ criteria[CONVERSION_TYPE] = 2) =>
        LET inl == criteria[INPUT_LOCALE]
            outl == criteria[OUTPUT_LOCALE]
            phr == criteria[USE_TARGET_PHRASES]
            unsupported == {pr \in LocalePairs :
                get_configuration(WithSelection(criteria, pr[1], pr[2], phr))
                    = "unsupported_conversion"}
        IN  /\ configuration =
                (CASE inl = 0 /\ outl = 0 -> "s2t"
                   [] inl = 0 /\ outl = 1 -> "s2hk"
                   [] inl = 0 /\ outl = 2 -> IF phr THEN "s2twp" ELSE "s2tw"
                   [] inl = 3 /\ outl = 0 -> "jp2t"
                   [] OTHER -> "unsupported_conversion")
            /\ Cardinality(unsupported) = 12
            /\ (inl \in {1, 2}) => configuration = "unsupported_conversion"
            /\ (inl = 3 /\ outl = 1) => configuration = "unsupported_conversion"

C5_Witness ==
    /\ pc = "resolved"
    /\ criteria[CONVERSION_TYPE] = 2
    /\ criteria[INPUT_LOCALE] = 3
    /\ criteria[OUTPUT_LOCALE] = 1
    /\ configuration = "unsupported_conversion"

\* C6: in mode TradToTrad the resolver returns no_conversion for the three
\* same-locale pairs of Mainland, HongKong and Taiwan, t2hk, hk2t, t2tw and
\* tw2t for Mainland<->HongKong and Mainland<->Taiwan, and
\* unsupported_conversion for HongKong<->Taiwan and every pair with Japan;
\* the phrasing flag does not matter.
C6_TradToTradTable ==
    (pc /= "resolve" /\ criteria[CONVERSION_TYPE] = 3) =>
        LET inl == criteria[INPUT_LOCALE]
            outl == criteria[OUTPUT_LOCALE]
            phr == criteria[USE_TARGET_PHRASES]
        IN  /\ configuration =
                (CASE inl = outl /\ inl \in {0, 1, 2} -> "no_conversion"
                   [] inl = 0 /\ outl = 1 -> "t2hk"
                   [] inl = 1 /\ outl = 0 -> "hk2t"
                   [] inl = 0 /\ outl = 2 -> "t2tw"
                   [] inl = 2 /\ outl = 0 -> "tw2t"
                   [] OTHER -> "unsupported_conversion")
            /\ (inl = 3 \/ outl = 3) => configuration = "unsupported_conversion"
            /\ get_configuration(WithSelection(criteria, inl, outl, ~phr)) = configuration

C6_Witness ==
    /\ pc = "resolved"
    /\ criteria[CONVERSION_TYPE] = 3
    /\ criteria[INPUT_LOCALE] = 1
    /\ criteria[OUTPUT_LOCALE] = 1
    /\ configuration = "no_conversion"

LocaleTag(locale) ==
    CASE locale = 0 -> "zh-CN"
      [] locale = 1 -> "zh-HK"
      [] locale = 2 -> "zh-TW"

C28_NoConversionWitness ==
    /\ pc = "resolved"
    /\ criteria[CONVERSION_TYPE] = 3
    /\ criteria[INPUT_LOCALE] = 2
    /\ criteria[OUTPUT_LOCALE] = 2
    /\ configuration = "no_conversion"
    /\ language_code = None

-----------------------------------------------------------------------------
(* Properties of the transformer, checked under SpecParser *)

\* the node met last and the fragment emitted for it
LastNode == rawdata[Len(rawdata)]

LastFragment == parser.result[Len(parser.result)]

\* a node has been handled and the call has not returned yet
Handled(kinds) == pc = "feeding" /\ rawdata /= <<>> /\ LastNode.kind \in kinds

\* a non-whitespace text run has been handled
HandledText == Handled({"data"}) /\ ~isspace(LastNode.data)

\* the quote remapping and the punctuation remapping the criteria select
QuoteRemap(text) == replace_quotations(parser, text)

PunctuationRemap(text) ==
    IF parser.criteria[PUNC_REGEX] = NoRegex THEN text
    ELSE multiple_replace(parser.criteria[PUNC_REGEX], parser.criteria[PUNC_DICT], text)

\* the text handed on after the two passes, in the order the orientation selects
Adjusted(text) ==
    IF parser.criteria[OUTPUT_ORIENTATION] = 1
    THEN QuoteRemap(PunctuationRemap(text))
    ELSE PunctuationRemap(QuoteRemap(text))

\* the rewritten form of a text run
Rewritten(text) ==
    IF parser.criteria[CONVERSION_TYPE] /= 0
    THEN convert(parser.conversion, Adjusted(text))
    ELSE Adjusted(text)

\* C1 as stated: with conversion mode NoChange processText returns its
\* input document, whatever the other criteria and the language tag.
C1_NoChangeIsIdentity ==
    (pc = "returned" /\ criteria[CONVERSION_TYPE] = 0) => htmlstr = DocText(rawdata)

C3_PassOrder ==
    (HandledText /\ parser.converting) =>
        LET text == LastNode.data
            ori == parser.criteria[OUTPUT_ORIENTATION]
            quo == parser.criteria[QUOTATION_TYPE]
            keys == parser.criteria[PUNC_REGEX].keys
            dict == parser.criteria[PUNC_DICT]
        IN  /\ ori \in {0, 2} => parser.text = PunctuationRemap(QuoteRemap(text))
            /\ ori = 1 => parser.text = QuoteRemap(PunctuationRemap(text))
            /\ \A i \in 1..Len(text) :
                /\ (ori = 2 /\ quo = 2 /\ text[i] \in DOMAIN simp_to_trad_quotes
                    /\ simp_to_trad_quotes[text[i]] \in keys) =>
                        /\ parser.text[i] = dict[simp_to_trad_quotes[text[i]]]
                        /\ PunctuationRemap(QuoteRemap(text)) /= QuoteRemap(PunctuationRemap(text))
                /\ (ori = 1 /\ quo = 1 /\ text[i] \in keys
                    /\ dict[text[i]] \in DOMAIN trad_to_simp_quotes) =>
                        /\ parser.text[i] = trad_to_simp_quotes[dict[text[i]]]
                        /\ PunctuationRemap(QuoteRemap(text)) /= QuoteRemap(PunctuationRemap(text))

C3_Witness ==
    /\ HandledText
    /\ parser.converting
    /\ parser.criteria[OUTPUT_ORIENTATION] = 1
    /\ parser.criteria[QUOTATION_TYPE] = 1
    /\ LastNode.data = <<"UFE41">>
    /\ parser.text = <<"U201C">>

\* C9 as stated: in an open tag and in a self-closing tag alike, each
\* lang="zh" / lang="zh-*" attribute text is replaced by the language
\* attribute exactly when the converting flag is true, the mode is not
\* NoChange and a language tag is set.
C9_LangRewriteAlike ==
    Handled({"starttag", "startendtag"}) =>
        LET lit == Literal(LastNode)
            active == /\ parser.converting
                      /\ parser.criteria[CONVERSION_TYPE] /= 0
                      /\ parser.language /= None
        IN  \A i \in 1..Len(lit) :
                lit[i] \in zh_re =>
                    LastFragment[i] = (IF active THEN parser.language ELSE lit[i])

\* C10 as stated: the html open tag gains an attribute only when it has no
\* xml:lang attribute, conversion is active, the mode is not NoChange and a
\* language tag is set; the attribute is then xml:lang with the resolved
\* tag, right before the closing '>'; with no language tag set the tag is
\* emitted as read.
C10_RootTagAppend ==
    (Handled({"starttag"}) /\ Lower(LastNode.tag) = "html") =>
        LET lit == Literal(LastNode)
            active == /\ parser.converting
                      /\ parser.criteria[CONVERSION_TYPE] /= 0
                      /\ parser.language /= None
            base == IF active THEN zh_re_sub(parser.language, lit) ELSE lit
            gained == Len(LastFragment) > Len(lit)
            has_xml_lang == \E i \in 1..Len(LastNode.attrs) :
                                AttrName(LastNode.attrs[i]) = <<"xml:", "lang">>
        IN  /\ gained => (~has_xml_lang /\ active)
            /\ gained => LastFragment = SubSeq(base, 1, Len(base) - 1)
                                        \o <<" ", "xml:", parser.language>> \o <<">">>
            /\ parser.language = None => LastFragment = lit


\* the root open tags of the document the second pass was given (the output
\* of the first pass), by position
RootTags == {i \in 1..Len(rawdata) : rawdata[i].kind = "starttag" /\ Lower(rawdata[i].tag) = "html"}

\* the attributes named xml:lang that a tag text carries
XmlLangCount(text) ==
    LET attrs == Parse(text)[1].attrs
    IN  Cardinality({j \in 1..Len(attrs) : AttrName(attrs[j]) = <<"xml:", "lang">>})

\* C11 as stated: processing the output of processText a second time with
\* the same criteria and language tag appends no second attribute to the
\* root open tag: the tag carries at most one xml:lang attribute and its
\* text after the second pass equals its text after the first.
C11_SecondPassStable ==
    pc = "reprocessed" =>
        \A i \in RootTags :
            /\ XmlLangCount(parser.result[i]) <= 1
            /\ parser.result[i] = Literal(rawdata[i])

\* a step of the feed: the parser meets one more node
FeedStep == pc = "feeding" /\ pc' = "feeding" /\ Len(rawdata') = Len(rawdata) + 1

\* the node a feed step meets
FedNode == rawdata'[Len(rawdata')]

\* C12: a text run consisting only of whitespace is emitted unchanged for
\* every criteria and every value of the converting flag, and the converter
\* is not invoked on it.
C12_WhitespaceUntouched ==
    [][(FeedStep /\ FedNode.kind = "data" /\ isspace(FedNode.data)) =>
          /\ parser'.result = Append(parser.result, FedNode.data)
          /\ parser'.convert_calls = parser.convert_calls]_vars

C12_Witness ==
    /\ Handled({"data"})
    /\ isspace(LastNode.data)
    /\ parser.converting
    /\ parser.criteria[CONVERSION_TYPE] /= 0
    /\ parser.criteria[QUOTATION_TYPE] /= 0
    /\ parser.criteria[PUNC_REGEX] /= NoRegex
    /\ LastFragment = LastNode.data
    /\ parser.convert_calls = <<>>

\* C13: convert is invoked exactly once for each non-whitespace text run met
\* while the converting flag is true and the mode is not NoChange, on the
\* text that results from the quote and punctuation passes; it is invoked
\* zero times for any other text run and never for a tag, comment, entity,
\* character reference, declaration or processing instruction.
C13_ConvertOncePerRun ==
    [][FeedStep =>
          parser'.convert_calls =
              IF /\ FedNode.kind = "data"
                 /\ ~isspace(FedNode.data)
                 /\ parser.converting
                 /\ parser.criteria[CONVERSION_TYPE] /= 0
              THEN Append(parser.convert_calls, Adjusted(FedNode.data))
              ELSE parser.convert_calls]_vars

C13_Witness ==
    /\ HandledText
    /\ Len(rawdata) = 2
    /\ rawdata[1].kind = "starttag"
    /\ parser.converting
    /\ parser.criteria[CONVERSION_TYPE] /= 0
    /\ parser.convert_calls = <<Adjusted(LastNode.data)>>
    /\ Adjusted(LastNode.data) /= LastNode.data

\* a tag none of whose attributes the lang rewrite matches
NoLangAttribute(n) == \A i \in 1..Len(n.attrs) : n.attrs[i].body \notin zh_re

\* C14 as stated: the output of processText is the concatenation, in document
\* order, of one fragment per parse event, and the fragment of every entity
\* reference, character reference, declaration, processing instruction,
\* comment, close tag and tag without a lang attribute (the root tag, which
\* may gain an attribute, left aside) equals the node's literal source text.
C14_FragmentsLiteral ==
    /\ pc = "feeding" => Len(parser.result) = Len(rawdata)
    /\ pc = "returned" => htmlstr = Join(parser.result)
    /\ Handled({"entityref", "charref", "decl", "unknown_decl", "pi", "comment", "endtag"})
            => LastFragment = Literal(LastNode)
    /\ (Handled({"starttag", "startendtag"}) /\ NoLangAttribute(LastNode)
            /\ Lower(LastNode.tag) /= "html")
            => LastFragment = Literal(LastNode)

\* the comment text as handle_comment re-emits it
CommentText(n) == <<"<!--">> \o n.data \o <<"-->">>

\* C15 as stated: a start sentinel comment sets the converting flag to true
\* and an end sentinel comment sets it to false whatever the flag's current
\* value; every comment is re-emitted as <!--content--> with its content
\* unchanged.
C15_SentinelsAsStated ==
    [][(FeedStep /\ FedNode.kind = "comment") =>
          /\ strip(FedNode.data) = <<seltext_start_tag>> => parser'.converting
          /\ strip(FedNode.data) = <<seltext_end_tag>> => ~parser'.converting
          /\ parser'.result = Append(parser.result, CommentText(FedNode))]_vars

\* C15 amended: with input source SelectedTextRegion a start sentinel comment
\* sets the converting flag to true and an end sentinel comment sets it to
\* false whatever the flag's current value; with any other input source, and
\* for any other comment, the flag is left as it is; every comment is
\* re-emitted as <!--content--> with its content unchanged.
C15_Sentinels ==
    [][(FeedStep /\ FedNode.kind = "comment") =>
          /\ parser'.converting =
                IF parser.criteria[INPUT_SOURCE] = 2
                   /\ strip(FedNode.data) = <<seltext_start_tag>> THEN TRUE
                ELSE IF parser.criteria[INPUT_SOURCE] = 2
                        /\ strip(FedNode.data) = <<seltext_end_tag>> THEN FALSE
                ELSE parser.converting
          /\ parser'.result = Append(parser.result, CommentText(FedNode))]_vars

\* a start sentinel met while the flag is already true
C15_Witness ==
    /\ Handled({"comment"})
    /\ parser.criteria[INPUT_SOURCE] = 2
    /\ Len(rawdata) = 2
    /\ rawdata[1].kind = "comment"
    /\ strip(rawdata[1].data) = <<seltext_start_tag>>
    /\ strip(rawdata[2].data) = <<seltext_start_tag>>
    /\ parser.converting
    /\ LastFragment = CommentText(LastNode)

\* the tokenisation agrees with the node-by-node feed: a document text is
\* parsed back into the nodes it was written from
ParseRoundTrip == pc = "returned" => Parse(DocText(rawdata)) = rawdata

\* processText as one call gives what the node-by-node feed gives
ProcessTextAgrees ==
    pc = "returned" =>
        processText(parser, DocText(rawdata), criteria).htmlstr = htmlstr

-----------------------------------------------------------------------------
(* The book container (bk) and the operations on it the plugin uses *)

\* one entry of the history of container writes and collaborator calls
Call(op, target) == [op |-> op, target |-> target]

\* the history entry of a call that returned a flag
Returned(op, flag) == Call(op, IF flag THEN "True" ELSE "False")

\* a message box shown to the user: icon, window title, number it reports
MessageBox(icon, title, n) == [icon |-> icon, title |-> title, n |-> n]

\* [x] * n
Repeat(x, n) == [i \in 1..n |-> x]

\* bk.readfile for a text document or the table of contents
readfile(book, id) ==
    IF id = book.toc.id THEN book.toc.data
    ELSE LET i == CHOOSE j \in 1..Len(book.text) : book.text[j].id = id
         IN  book.text[i].data

\* bk.writefile for a text document or the table of contents
writefile(book, id, data) ==
    IF id = book.toc.id THEN [book EXCEPT !.toc.data = data]
    ELSE [book EXCEPT !.text = [i \in 1..Len(book.text) |->
                                   IF book.text[i].id = id
                                   THEN [book.text[i] EXCEPT !.data = data]
                                   ELSE book.text[i]]]

\* bk.id_to_mime
id_to_mime(book, id) ==
    IF \E i \in 1..Len(book.text) : book.text[i].id = id
    THEN "application/xhtml+xml" ELSE "text/css"

\* bk.id_to_href for a text document
id_to_href(book, id) ==
    LET i == CHOOSE j \in 1..Len(book.text) : book.text[j].id = id
    IN  book.text[i].href

\* the properties set_flow_direction maintains on a style rule
WritingModeProps == {"writing-mode", "-epub-writing-mode", "-webkit-writing-mode"}

LineBreakProps == {"line-break", "-webkit-line-break"}

\* a css style rule: its selector list and the value of each property
\* ('' when the property is absent, as css_parser reports it)
StyleRule(selectors, orientation_value, break_value) ==
    [selectors |-> selectors,
     style |-> [p \in WritingModeProps \cup LineBreakProps |->
                   IF p \in WritingModeProps THEN orientation_value ELSE break_value]]

\* a slip in the change detection: every visited rule counts as changed
add_flow_direction_properties_always_changed(rule, orientation_value, break_value) ==
    [rule |-> [rule EXCEPT !.style = [p \in DOMAIN rule.style |->
                   IF p \in WritingModeProps THEN orientation_value ELSE break_value]],
     rule_changed |-> TRUE]

\* the rule afterwards and whether any property was changed
add_flow_direction_properties(rule, orientation_value, break_value) ==
    [rule |-> [rule EXCEPT !.style = [p \in DOMAIN rule.style |->
                   IF p \in WritingModeProps THEN orientation_value ELSE break_value]],
     rule_changed |-> \/ \E p \in WritingModeProps : rule.style[p] /= orientation_value
                      \/ \E p \in LineBreakProps : rule.style[p] /= break_value]

\* the rules of a sheet with selectorText among their selectors
RulesWith(sheet, selectorText) ==
    {i \in 1..Len(sheet) :
        \E j \in 1..Len(sheet[i].selectors) : sheet[i].selectors[j] = selectorText}

\* one loop of set_flow_direction over a sheet: the sheet afterwards
SheetAfter(sheet, selectorText, orientation, break_rule) ==
    [i \in 1..Len(sheet) |->
        IF i \in RulesWith(sheet, selectorText)
        THEN add_flow_direction_properties(sheet[i], orientation, break_rule).rule
        ELSE sheet[i]]

\* one loop of set_flow_direction over a sheet: how many rules it changed,
\* each of them appending the href and writing the sheet
RulesChanged(sheet, selectorText, orientation, break_rule) ==
    Cardinality({i \in RulesWith(sheet, selectorText) :
        add_flow_direction_properties(sheet[i], orientation, break_rule).rule_changed})

\* a slip in the priority: body rules are looked for before .calibre rules
set_flow_direction_body_first(book, crit, files, history) ==
    LET flow == IF crit[OUTPUT_ORIENTATION] = 2 THEN "rtl"
                ELSE IF crit[OUTPUT_ORIENTATION] = 1 THEN "ltr" ELSE "default"
        old_flow == book.ppd
        orientation == IF crit[OUTPUT_ORIENTATION] = 2 THEN "vertical-rl" ELSE "horizontal-tb"
        break_rule == IF crit[OUTPUT_ORIENTATION] = 2 THEN "normal" ELSE "auto"
        css == book.css
        found(sel) == \E i \in 1..Len(css) : RulesWith(css[i].sheet, sel) /= {}
        selectorText == IF found("body") THEN "body" ELSE ".calibre"
        addedCSSRules == found(".calibre") \/ found("body")
        count(i) == IF addedCSSRules
                    THEN RulesChanged(css[i].sheet, selectorText, orientation, break_rule)
                    ELSE 1
        css2 == [i \in 1..Len(css) |->
                    [css[i] EXCEPT !.sheet =
                        IF addedCSSRules
                        THEN SheetAfter(css[i].sheet, selectorText, orientation, break_rule)
                        ELSE Append(css[i].sheet,
                                    StyleRule(<<"body">>, orientation, break_rule))]]
        hrefs == Join([i \in 1..Len(css) |-> Repeat(css[i].href, count(i))])
        writes == Join([i \in 1..Len(css) |-> Repeat(Call("writefile", css[i].id), count(i))])
    IN  [bk |-> [book EXCEPT !.ppd = flow, !.css = css2],
         changed_files |-> files \o hrefs,
         log |-> Append(history, Call("setspine_ppd", flow)) \o writes,
         fileChanged |-> (old_flow /= flow) \/ hrefs /= <<>>]

\* a slip in the page progression: the direction is read but not set
set_flow_direction_keeps_ppd(book, crit, files, history) ==
    LET flow == IF crit[OUTPUT_ORIENTATION] = 2 THEN "rtl"
                ELSE IF crit[OUTPUT_ORIENTATION] = 1 THEN "ltr" ELSE "default"
        old_flow == book.ppd
        orientation == IF crit[OUTPUT_ORIENTATION] = 2 THEN "vertical-rl" ELSE "horizontal-tb"
        break_rule == IF crit[OUTPUT_ORIENTATION] = 2 THEN "normal" ELSE "auto"
        css == book.css
        found(sel) == \E i \in 1..Len(css) : RulesWith(css[i].sheet, sel) /= {}
        selectorText == IF found(".calibre") THEN ".calibre" ELSE "body"
        addedCSSRules == found(".calibre") \/ found("body")
        count(i) == IF addedCSSRules
                    THEN RulesChanged(css[i].sheet, selectorText, orientation, break_rule)
                    ELSE 1
        css2 == [i \in 1..Len(css) |->
                    [css[i] EXCEPT !.sheet =
                        IF addedCSSRules
                        THEN SheetAfter(css[i].sheet, selectorText, orientation, break_rule)
                        ELSE Append(css[i].sheet,
                                    StyleRule(<<"body">>, orientation, break_rule))]]
        hrefs == Join([i \in 1..Len(css) |-> Repeat(css[i].href, count(i))])
        writes == Join([i \in 1..Len(css) |-> Repeat(Call("writefile", css[i].id), count(i))])
    IN  [bk |-> [book EXCEPT !.css = css2],
         changed_files |-> files \o hrefs,
         log |-> Append(history, Call("setspine_ppd", flow)) \o writes,
         fileChanged |-> (old_flow /= flow) \/ hrefs /= <<>>]

\* set_flow_direction: the container, changed_files and history afterwards
\* and the returned fileChanged
set_flow_direction(book, crit, files, history) ==
    LET flow == IF crit[OUTPUT_ORIENTATION] = 2 THEN "rtl"
                ELSE IF crit[OUTPUT_ORIENTATION] = 1 THEN "ltr" ELSE "default"
        old_flow == book.ppd
        orientation == IF crit[OUTPUT_ORIENTATION] = 2 THEN "vertical-rl" ELSE "horizontal-tb"
        break_rule == IF crit[OUTPUT_ORIENTATION] = 2 THEN "normal" ELSE "auto"
        css == book.css
        found(sel) == \E i \in 1..Len(css) : RulesWith(css[i].sheet, sel) /= {}
        selectorText == IF found(".calibre") THEN ".calibre" ELSE "body"
        addedCSSRules == found(".calibre") \/ found("body")
        count(i) == IF addedCSSRules
                    THEN RulesChanged(css[i].sheet, selectorText, orientation, break_rule)
                    ELSE 1
        css2 == [i \in 1..Len(css) |->
                    [css[i] EXCEPT !.sheet =
                        IF addedCSSRules
                        THEN SheetAfter(css[i].sheet, selectorText, orientation, break_rule)
                        ELSE Append(css[i].sheet,
                                    StyleRule(<<"body">>, orientation, break_rule))]]
        hrefs == Join([i \in 1..Len(css) |-> Repeat(css[i].href, count(i))])
        writes == Join([i \in 1..Len(css) |-> Repeat(Call("writefile", css[i].id), count(i))])
    IN  [bk |-> [book EXCEPT !.ppd = flow, !.css = css2],
         changed_files |-> files \o hrefs,
         log |-> Append(history, Call("setspine_ppd", flow)) \o writes,
         fileChanged |-> (old_flow /= flow) \/ hrefs /= <<>>]

\* the dc:language texts re.search('zh-\w+|zh', text, IGNORECASE) finds
ZhLanguages == {"zh", "zh-TW", "zh-CN", "zh-HK", "ZH"}

\* set_metadata_toc: the parser, container, changed_files and history
\* afterwards and the returned flag
set_metadata_toc(self_parser, book, files, history, crit, language) ==
    LET md == book.metadata
        md2 == [language |-> IF md.language \in ZhLanguages THEN language ELSE md.language,
                creator |-> convert(self_parser.conversion, md.creator),
                title |-> convert(self_parser.conversion, md.title)]
        metadataChanged == md2 /= md
        \* line 962; line 1014 assigns the attribute self.tocChanged instead
        tocChanged == FALSE
        data == readfile(book, book.toc.id)
        r == processText(self_parser, data, crit)
        written == r.htmlstr /= data
        book2 == IF written THEN writefile(book, book.toc.id, r.htmlstr) ELSE book
        history2 == Append(history, Call("processText", book.toc.id))
                    \o (IF written THEN <<Call("writefile", book.toc.id)>> ELSE <<>>)
    IN  [parser |-> r.self,
         bk |-> IF metadataChanged THEN [book2 EXCEPT !.metadata = md2] ELSE book2,
         changed_files |-> IF written THEN Append(files, book.toc.href) ELSE files,
         log |-> history2 \o (IF metadataChanged THEN <<Call("setmetadataxml", "opf")>>
                              ELSE <<>>),
         ret |-> tocChanged \/ metadataChanged]

-----------------------------------------------------------------------------
(* guiTradSimpChinese: the OK handler and process_files *)

\* a slip in the OK handler: the unsupported selection is run like any other
_ok_clicked_runs_unsupported(self_parser, crit) ==
    LET language == get_language_code(crit)
        conversion == get_configuration(crit)
        p1 == setLanguageAttribute(self_parser, LangAttr(language))
    IN  [language |-> language, conversion |-> conversion,
         parser |-> set_conversion(p1, conversion),
         dialogs |-> <<>>,
         log |-> <<Call("set_conversion", conversion)>>,
         pc |-> "process_files"]

\* _ok_clicked up to the call of process_files: the language code, the
\* resolved conversion, the parser afterwards, the message box shown, the
\* collaborator calls made and where the handler goes on
_ok_clicked(self_parser, crit) ==
    LET language == get_language_code(crit)
        conversion == get_configuration(crit)
        p1 == setLanguageAttribute(self_parser, LangAttr(language))
    IN  IF conversion = "unsupported_conversion"
        THEN [language |-> language, conversion |-> conversion, parser |-> p1,
              dialogs |-> <<MessageBox("Warning", "No Changes", 0)>>,
              log |-> <<>>,
              pc |-> "report"]
        ELSE [language |-> language, conversion |-> conversion,
              parser |-> set_conversion(p1, conversion),
              dialogs |-> <<>>,
              log |-> <<Call("set_conversion", conversion)>>,
              pc |-> "process_files"]

\* ShowProgressDialog.__init__
ShowProgressDialog(book) ==
    [file_list |-> [i \in 1..Len(book.text) |-> [id |-> book.text[i].id,
                                                 href |-> book.text[i].href]],
     clean |-> TRUE, changed_files |-> <<>>, total_count |-> Len(book.text),
     i |-> 0, value |-> 0, wasCanceled |-> FALSE, open |-> TRUE, scheduled |-> TRUE]

\* the OK button: savePrefs has stored the settings; resolve and branch
OkClicked ==
    /\ pc = "dialog"
    /\ \E crit \in {getCriteria(prefs)} : \E r \in {_ok_clicked(parser, crit)} :
           /\ criteria' = crit
           /\ language_code' = r.language
           /\ configuration' = r.conversion
           /\ parser' = r.parser
           /\ dialogs' = dialogs \o r.dialogs
           /\ log' = log \o r.log
           /\ pc' = r.pc
    /\ filesChanged' = FALSE
    /\ changed_files' = <<>>
    /\ sel_pos' = 0
    /\ UNCHANGED <<prefs, bk, dlg, feedvars>>

\* a slip in the selected-files loop: the document is written back and
\* listed whether or not the transformer changed it
SelectedFile_writes_always ==
    /\ pc = "process_files"
    /\ criteria[INPUT_SOURCE] \in {1, 2}
    /\ sel_pos < Len(bk.selected)
    /\ sel_pos' = sel_pos + 1
    /\ LET ident == bk.selected[sel_pos + 1] IN
        IF id_to_mime(bk, ident) /= "application/xhtml+xml"
        THEN UNCHANGED <<parser, bk, filesChanged, changed_files, log>>
        ELSE \E data \in {readfile(bk, ident)} :
             \E r \in {processText(parser, data, criteria)} :
                 /\ parser' = r.self
                 /\ filesChanged' = TRUE
                 /\ changed_files' = Append(changed_files, id_to_href(bk, ident))
                 /\ bk' = writefile(bk, ident, r.htmlstr)
                 /\ log' = log \o <<Call("processText", ident),
                                    Call("writefile", ident)>>
    /\ UNCHANGED <<pc, criteria, configuration, language_code, prefs, dlg, dialogs, feedvars>>

\* process_files, selected files: one turn of the loop over bk.selected_iter()
SelectedFile ==
    /\ pc = "process_files"
    /\ criteria[INPUT_SOURCE] \in {1, 2}
    /\ sel_pos < Len(bk.selected)
    /\ sel_pos' = sel_pos + 1
    /\ LET ident == bk.selected[sel_pos + 1] IN
        IF id_to_mime(bk, ident) /= "application/xhtml+xml"
        THEN UNCHANGED <<parser, bk, filesChanged, changed_files, log>>
        ELSE \E data \in {readfile(bk, ident)} :
             \E r \in {processText(parser, data, criteria)} :
                 /\ parser' = r.self
                 /\ IF r.htmlstr /= data
                    THEN /\ filesChanged' = TRUE
                         /\ changed_files' = Append(changed_files, id_to_href(bk, ident))
                         /\ bk' = writefile(bk, ident, r.htmlstr)
                         /\ log' = log \o <<Call("processText", ident),
                                            Call("writefile", ident)>>
                    ELSE /\ log' = Append(log, Call("processText", ident))
                         /\ UNCHANGED <<bk, filesChanged, changed_files>>
    /\ UNCHANGED <<pc, criteria, configuration, language_code, prefs, dlg, dialogs, feedvars>>

\* process_files, selected files: the transformation of the document raises;
\* the exception leaves the loop and process_files and reaches the except
\* clause of _ok_clicked, which shows the failure
SelectedFileRaises ==
    /\ pc = "process_files"
    /\ criteria[INPUT_SOURCE] \in {1, 2}
    /\ sel_pos < Len(bk.selected)
    /\ id_to_mime(bk, bk.selected[sel_pos + 1]) = "application/xhtml+xml"
    /\ log' = Append(log, Call("raise", bk.selected[sel_pos + 1]))
    /\ dialogs' = Append(dialogs, MessageBox("Critical", "Failed", 0))
    /\ pc' = "failed"
    /\ UNCHANGED <<criteria, configuration, language_code, parser, prefs, bk,
                   filesChanged, changed_files, dlg, sel_pos, feedvars>>

\* process_files, selected files: the loop is exhausted and the call returns
SelectedFilesReturn ==
    /\ pc = "process_files"
    /\ criteria[INPUT_SOURCE] \in {1, 2}
    /\ sel_pos = Len(bk.selected)
    /\ pc' = "report"
    /\ UNCHANGED <<criteria, configuration, language_code, parser, runvars, feedvars>>

\* a slip in process_files: the link is forced in every run that sets an
\* orientation, whether or not the book owns a stylesheet
WholeBookBegin_forces_with_stylesheets ==
    /\ pc = "process_files"
    /\ criteria[INPUT_SOURCE] = 0
    /\ \E m \in {IF criteria[CONVERSION_TYPE] /= 0
                  THEN set_metadata_toc(parser, bk, changed_files, log, criteria,
                                        language_code)
                  ELSE [parser |-> parser, bk |-> bk, changed_files |-> changed_files,
                        log |-> log, ret |-> filesChanged]} :
       LET force == criteria[OUTPUT_ORIENTATION] /= 0 /\ Len(m.bk.css) = 0
       IN  /\ filesChanged' = (force \/ m.ret)
           /\ bk' = IF force
                    THEN [m.bk EXCEPT !.css = <<[id |-> "css", href |-> "Styles/stylesheet.css",
                                                 sheet |-> <<>>]>>]
                    ELSE m.bk
           /\ log' = IF force THEN Append(m.log, Call("addfile", "css")) ELSE m.log
           /\ parser' = [m.parser EXCEPT !.force_stylesheet = criteria[OUTPUT_ORIENTATION] /= 0]
           /\ changed_files' = m.changed_files
           /\ dlg' = ShowProgressDialog(m.bk)
    /\ pc' = "progress"
    /\ UNCHANGED <<criteria, configuration, language_code, prefs, sel_pos, dialogs, feedvars>>

\* process_files, whole book: metadata and table of contents, the forced
\* stylesheet, and the progress dialog constructed
WholeBookBegin ==
    /\ pc = "process_files"
    /\ criteria[INPUT_SOURCE] = 0
    /\ \E m \in {IF criteria[CONVERSION_TYPE] /= 0
                  THEN set_metadata_toc(parser, bk, changed_files, log, criteria,
                                        language_code)
                  ELSE [parser |-> parser, bk |-> bk, changed_files |-> changed_files,
                        log |-> log, ret |-> filesChanged]} :
       LET force == criteria[OUTPUT_ORIENTATION] /= 0 /\ Len(m.bk.css) = 0
       IN  /\ filesChanged' = (force \/ m.ret)
           /\ bk' = IF force
                    THEN [m.bk EXCEPT !.css = <<[id |-> "css", href |-> "Styles/stylesheet.css",
                                                 sheet |-> <<>>]>>]
                    ELSE m.bk
           /\ log' = IF force THEN Append(m.log, Call("addfile", "css")) ELSE m.log
           /\ parser' = [m.parser EXCEPT !.force_stylesheet = force \/ @]
           /\ changed_files' = m.changed_files
           /\ dlg' = ShowProgressDialog(m.bk)
    /\ pc' = "progress"
    /\ UNCHANGED <<criteria, configuration, language_code, prefs, sel_pos, dialogs, feedvars>>

\* process_files, whole book: the transformation of the table of contents
\* raises inside set_metadata_toc, before anything is written; the exception
\* reaches the except clause of _ok_clicked, which shows the failure
TocRaises ==
    /\ pc = "process_files"
    /\ criteria[INPUT_SOURCE] = 0
    /\ criteria[CONVERSION_TYPE] /= 0
    /\ log' = Append(log, Call("raise", bk.toc.id))
    /\ dialogs' = Append(dialogs, MessageBox("Critical", "Failed", 0))
    /\ pc' = "failed"
    /\ UNCHANGED <<criteria, configuration, language_code, parser, prefs, bk,
                   filesChanged, changed_files, dlg, sel_pos, feedvars>>

\* what becomes of an exception that leaves a callable the Qt event loop
\* invoked: the binding ends the process, or reports on stderr and returns
\* to the event loop
SlotExceptionOutcomes == {"abort", "swallow"}

\* ShowProgressDialog.do_action when the transformation of the document
\* raises: the file has been read and counted, nothing is written, the
\* progress value is not set and no further do_action is scheduled; the
\* exception leaves a timer callback, not the try statement of _ok_clicked
DoActionRaises ==
    /\ pc = "progress"
    /\ dlg.open /\ dlg.scheduled
    /\ ~dlg.wasCanceled
    /\ dlg.i < dlg.total_count
    /\ log' = Append(log, Call("raise", dlg.file_list[dlg.i + 1].id))
    /\ dlg' = [dlg EXCEPT !.i = @ + 1, !.scheduled = FALSE]
    /\ \E outcome \in SlotExceptionOutcomes :
            pc' = IF outcome = "abort" THEN "aborted" ELSE pc
    /\ UNCHANGED <<criteria, configuration, language_code, parser, prefs, bk,
                   filesChanged, changed_files, sel_pos, dialogs, feedvars>>

\* a slip in do_action: the cancellation is not examined
DoAction_ignores_cancel ==
    /\ pc = "progress"
    /\ dlg.open /\ dlg.scheduled
    /\ IF dlg.i >= dlg.total_count
       THEN /\ dlg' = [dlg EXCEPT !.open = FALSE, !.scheduled = FALSE]
            /\ UNCHANGED <<parser, bk, log>>
       ELSE LET file == dlg.file_list[dlg.i + 1] IN
            \E data \in {readfile(bk, file.id)} :
            \E r \in {processText(parser, data, criteria)} :
                /\ parser' = r.self
                /\ IF r.htmlstr /= data
                   THEN /\ dlg' = [dlg EXCEPT !.i = @ + 1, !.value = dlg.i + 1,
                                              !.clean = FALSE,
                                              !.changed_files = Append(@, file.href)]
                        /\ bk' = writefile(bk, file.id, r.htmlstr)
                        /\ log' = log \o <<Call("processText", file.id),
                                           Call("writefile", file.id)>>
                   ELSE /\ dlg' = [dlg EXCEPT !.i = @ + 1, !.value = dlg.i + 1]
                        /\ bk' = bk
                        /\ log' = Append(log, Call("processText", file.id))
    /\ UNCHANGED <<pc, criteria, configuration, language_code, prefs, filesChanged,
                   changed_files, sel_pos, dialogs, feedvars>>

\* a slip in do_action: the progress value is not set
DoAction_keeps_value ==
    /\ pc = "progress"
    /\ dlg.open /\ dlg.scheduled
    /\ IF dlg.wasCanceled \/ dlg.i >= dlg.total_count
       THEN /\ dlg' = [dlg EXCEPT !.open = FALSE, !.scheduled = FALSE]
            /\ UNCHANGED <<parser, bk, log>>
       ELSE LET file == dlg.file_list[dlg.i + 1] IN
            \E data \in {readfile(bk, file.id)} :
            \E r \in {processText(parser, data, criteria)} :
                /\ parser' = r.self
                /\ IF r.htmlstr /= data
                   THEN /\ dlg' = [dlg EXCEPT !.i = @ + 1,
                                              !.clean = FALSE,
                                              !.changed_files = Append(@, file.href)]
                        /\ bk' = writefile(bk, file.id, r.htmlstr)
                        /\ log' = log \o <<Call("processText", file.id),
                                           Call("writefile", file.id)>>
                   ELSE /\ dlg' = [dlg EXCEPT !.i = @ + 1]
                        /\ bk' = bk
                        /\ log' = Append(log, Call("processText", file.id))
    /\ UNCHANGED <<pc, criteria, configuration, language_code, prefs, filesChanged,
                   changed_files, sel_pos, dialogs, feedvars>>

\* ShowProgressDialog.do_action
DoAction ==
    /\ pc = "progress"
    /\ dlg.open /\ dlg.scheduled
    /\ IF dlg.wasCanceled \/ dlg.i >= dlg.total_count
       THEN /\ dlg' = [dlg EXCEPT !.open = FALSE, !.scheduled = FALSE]
            /\ UNCHANGED <<parser, bk, log>>
       ELSE LET file == dlg.file_list[dlg.i + 1] IN
            \E data \in {readfile(bk, file.id)} :
            \E r \in {processText(parser, data, criteria)} :
                /\ parser' = r.self
                /\ IF r.htmlstr /= data
                   THEN /\ dlg' = [dlg EXCEPT !.i = @ + 1, !.value = dlg.i + 1,
                                              !.clean = FALSE,
                                              !.changed_files = Append(@, file.href)]
                        /\ bk' = writefile(bk, file.id, r.htmlstr)
                        /\ log' = log \o <<Call("processText", file.id),
                                           Call("writefile", file.id)>>
                   ELSE /\ dlg' = [dlg EXCEPT !.i = @ + 1, !.value = dlg.i + 1]
                        /\ bk' = bk
                        /\ log' = Append(log, Call("processText", file.id))
    /\ UNCHANGED <<pc, criteria, configuration, language_code, prefs, filesChanged,
                   changed_files, sel_pos, dialogs, feedvars>>

\* the user presses Cancel on the progress dialog between two files; the
\* dialog is closed by the next do_action, or at once when none is scheduled
Cancel ==
    /\ pc = "progress"
    /\ dlg.open
    /\ ~dlg.wasCanceled
    /\ dlg' = [dlg EXCEPT !.wasCanceled = TRUE, !.open = dlg.scheduled]
    /\ UNCHANGED <<pc, criteria, configuration, language_code, parser, prefs, bk,
                   filesChanged, changed_files, sel_pos, dialogs, log, feedvars>>

\* process_files, whole book, after the progress dialog has closed
WholeBookEnd ==
    /\ pc = "progress"
    /\ ~dlg.open
    /\ \E files \in {changed_files \o dlg.changed_files} :
       \E d \in {IF criteria[OUTPUT_ORIENTATION] /= 0
                  THEN set_flow_direction(bk, criteria, files, log)
                  ELSE [bk |-> bk, changed_files |-> files, log |-> log,
                        fileChanged |-> FALSE]} :
           /\ changed_files' = d.changed_files
           /\ bk' = d.bk
           /\ log' = IF criteria[OUTPUT_ORIENTATION] /= 0
                     THEN Append(d.log, Returned("set_flow_direction", d.fileChanged))
                     ELSE d.log
           /\ filesChanged' = (filesChanged \/ ~dlg.clean \/ d.fileChanged)
    /\ parser' = [parser EXCEPT !.force_stylesheet = FALSE]
    /\ pc' = "report"
    /\ UNCHANGED <<criteria, configuration, language_code, prefs, dlg, sel_pos,
                   dialogs, feedvars>>

\* _ok_clicked, the else clause of the try statement
Report ==
    /\ pc = "report"
    /\ dialogs' = IF filesChanged
                  THEN Append(dialogs, MessageBox("NoIcon", "Changed Files", Len(changed_files)))
                  ELSE IF configuration /= "unsupported_conversion"
                  THEN Append(dialogs, MessageBox("Information", "No Changes", 0))
                  ELSE dialogs
    /\ pc' = "done"
    /\ UNCHANGED <<criteria, configuration, language_code, parser, prefs, bk,
                   filesChanged, changed_files, dlg, sel_pos, log, feedvars>>

NextRun ==
    \/ OkClicked
    \/ SelectedFile
    \/ SelectedFileRaises
    \/ SelectedFilesReturn
    \/ WholeBookBegin
    \/ TocRaises
    \/ DoAction
    \/ DoActionRaises
    \/ Cancel
    \/ WholeBookEnd
    \/ Report

-----------------------------------------------------------------------------
(* SpecRun: one press of OK on every setting and book below *)

\* (mode, input locale, output locale) selections: no change; three
\* supported conversions; two unsupported ones
RunSelections ==
    {<<0, 0, 0>>, <<1, 0, 0>>, <<1, 0, 3>>, <<3, 1, 1>>, <<2, 3, 1>>, <<3, 1, 2>>}

RunPrefs ==
    {Prefs(src, s[1], s[2], s[3], FALSE, quo, ori, ori /= 0, PUNC_OMITS) :
        src \in 0..2, s \in RunSelections, quo \in {0, 1}, ori \in 0..2}

\* text documents: one with Chinese text under a root tag, one with a
\* selected region, one that no setting changes, one with a head
TextZh ==
    DocText(<<Node("starttag", "html", <<Attr("xml:", "lang=\"zh-TW\"")>>, <<>>),
              Node("data", "", <<>>, <<"U8ECA", "U201C">>)>>)

TextSelected ==
    DocText(<<Node("comment", "", <<>>, <<seltext_start_tag>>),
              Node("data", "", <<>>, <<"U8ECA">>),
              Node("comment", "", <<>>, <<seltext_end_tag>>)>>)

TextPlain ==
    DocText(<<Node("starttag", "p", <<>>, <<>>), Node("data", "", <<>>, <<"U0041">>)>>)

\* a document with a head, closed twice
TextHead ==
    DocText(<<Node("starttag", "head", <<>>, <<>>), Node("endtag", "head", <<>>, <<>>),
              Node("endtag", "head", <<>>, <<>>)>>)

TextDocs ==
    {<<[id |-> "t1", href |-> "Text/t1.xhtml", data |-> TextZh],
       [id |-> "t2", href |-> "Text/t2.xhtml", data |-> TextSelected]>>,
     <<[id |-> "t1", href |-> "Text/t1.xhtml", data |-> TextPlain]>>,
     <<[id |-> "t1", href |-> "Text/t1.xhtml", data |-> TextHead],
       [id |-> "t2", href |-> "Text/t2.xhtml", data |-> TextPlain]>>}

TocDocs ==
    {[id |-> "ncx", href |-> "toc.ncx",
      data |-> DocText(<<Node("starttag", "text", <<>>, <<>>),
                         Node("data", "", <<>>, <<t>>)>>)] : t \in {"U8ECA", "U300C"}}

\* stylesheets: none; .calibre in two rules of one sheet; a body rule that
\* is already vertical; two sheets with neither selector; a .calibre rule in
\* one sheet and a body rule in another; a horizontal body rule in one sheet
\* and no body rule in the other; a body rule and a .calibre rule in one sheet
StyleSheets ==
    {<<>>,
     <<[id |-> "c1", href |-> "Styles/a.css",
        sheet |-> <<StyleRule(<<".calibre">>, "", ""),
                    StyleRule(<<"p", ".calibre">>, "", "")>>]>>,
     <<[id |-> "c1", href |-> "Styles/a.css",
        sheet |-> <<StyleRule(<<"body">>, "vertical-rl", "normal")>>]>>,
     <<[id |-> "c1", href |-> "Styles/a.css", sheet |-> <<StyleRule(<<"p">>, "", "")>>],
       [id |-> "c2", href |-> "Styles/b.css", sheet |-> <<>>]>>,
     <<[id |-> "c1", href |-> "Styles/a.css", sheet |-> <<StyleRule(<<".calibre">>, "", "")>>],
       [id |-> "c2", href |-> "Styles/b.css", sheet |-> <<StyleRule(<<"body">>, "", "")>>]>>,
     <<[id |-> "c1", href |-> "Styles/a.css",
        sheet |-> <<StyleRule(<<"body">>, "horizontal-tb", "auto")>>],
       [id |-> "c2", href |-> "Styles/b.css", sheet |-> <<StyleRule(<<"p">>, "", "")>>]>>,
     <<[id |-> "c1", href |-> "Styles/a.css",
        sheet |-> <<StyleRule(<<"body">>, "", "normal"),
                    StyleRule(<<".calibre">>, "vertical-rl", "")>>]>>}

Metadatas ==
    {[language |-> l, creator |-> <<"U8ECA">>, title |-> <<"U0041">>] : l \in {"zh", "en"}}

\* what the user has selected in the book browser
Selections == {<<"t1">>, <<"c1", "t1">>, <<"t2", "t1">>}

FileIds(book) ==
    {book.text[i].id : i \in 1..Len(book.text)} \cup {book.css[i].id : i \in 1..Len(book.css)}

Books ==
    {book \in [text : TextDocs, toc : TocDocs, metadata : Metadatas, css : StyleSheets,
               ppd : {None, "rtl"}, selected : Selections] :
        \A i \in 1..Len(book.selected) : book.selected[i] \in FileIds(book)}

InitRun ==
    /\ pc = "dialog"
    /\ prefs \in RunPrefs
    /\ bk \in Books
    /\ criteria = NoCriteria
    /\ configuration = None
    /\ language_code = None
    /\ parser = NewParser
    /\ rawdata = <<>>
    /\ htmlstr = <<>>
    /\ lastSentinel = "none"
    /\ filesChanged = FALSE
    /\ changed_files = <<>>
    /\ dlg = NoDialog
    /\ sel_pos = 0
    /\ dialogs = <<>>
    /\ log = <<>>

SpecRun == InitRun /\ [][NextRun]_vars

-----------------------------------------------------------------------------
(* Properties of the run (SpecRun) *)

\* the settings resolve to unsupported_conversion and OK has been handled
UnsupportedRun == pc /= "dialog" /\ configuration = "unsupported_conversion"

\* the container as OK found it: no container operation is in the history
\* and the documents, table of contents, metadata, stylesheets and page
\* progression are those of a book the run can start from
Untouched == log = <<>> /\ bk \in Books

\* C8: when the selected mode and locales resolve to unsupported_conversion
\* the run ends without a call of the converter's set_conversion, without a
\* processText or convert call on any document and without any write to the
\* container; process_files is never entered; the only message box is the
\* "No Changes" warning, not the "Failed" error box.
C8_UnsupportedEndsRun ==
    UnsupportedRun =>
        /\ pc \in {"report", "done"}
        /\ Untouched
        /\ parser.conversion = None
        /\ parser.convert_calls = <<>>
        /\ ~filesChanged /\ changed_files = <<>>
        /\ dialogs = <<MessageBox("Warning", "No Changes", 0)>>

C8_Witness ==
    /\ pc = "done"
    /\ configuration = "unsupported_conversion"
    /\ prefs.conversion_type = 3
    /\ prefs.output_orientation = 2
    /\ bk.css = <<>>
    /\ dialogs = <<MessageBox("Warning", "No Changes", 0)>>

-----------------------------------------------------------------------------
(* SpecCriteria: getCriteria applied to stored preferences *)

\* the master marks the omission sets below vary over
OmitWindow == {"U3002", "U300C", "U300D", "UFF08"}

\* omission sets as the punctuation dialog stores them: the unchecked master
\* marks. The default set, every subset of the window and the complement of
\* every such subset (which includes "all marks omitted")
OmissionSets ==
    {PUNC_OMITS} \cup (SUBSET OmitWindow)
        \cup {(DOMAIN _h2v_master_dict) \ w : w \in SUBSET OmitWindow}

CriteriaPrefs ==
    {Prefs(0, 1, 0, 0, FALSE, 0, ori, upd, omits) :
        ori \in 0..2, upd \in BOOLEAN, omits \in OmissionSets}

InitCriteria ==
    /\ pc = "prefs"
    /\ prefs \in CriteriaPrefs
    /\ criteria = NoCriteria
    /\ configuration = None
    /\ language_code = None
    /\ parser = NewParser
    /\ rawdata = <<>>
    /\ htmlstr = <<>>
    /\ lastSentinel = "none"
    /\ bk = None
    /\ filesChanged = FALSE
    /\ changed_files = <<>>
    /\ dlg = NoDialog
    /\ sel_pos = 0
    /\ dialogs = <<>>
    /\ log = <<>>

GetCriteria ==
    /\ pc = "prefs"
    /\ criteria' = getCriteria(prefs)
    /\ pc' = "criteria"
    /\ UNCHANGED <<configuration, language_code, parser, prefs, bk, filesChanged,
                   changed_files, dlg, sel_pos, dialogs, log, feedvars>>

NextCriteria == GetCriteria

SpecCriteria == InitCriteria /\ [][NextCriteria]_vars

\* the master marks the stored preferences do not omit
KeptMarks == (DOMAIN _h2v_master_dict) \ prefs.punc_omits

\* C16: getCriteria yields a punctuation matcher if and only if the
\* orientation is not NoChange, update_punctuation is true and at least one
\* master mark is not omitted; the table is non-empty exactly when the
\* matcher is present; for Vertical the table maps each kept horizontal mark
\* to its vertical form, for Horizontal it maps the vertical form of each
\* kept mark back to the mark; neither an omitted mark nor its vertical form
\* is a key in either direction.
C16_PunctuationTable ==
    pc = "criteria" =>
        LET present == criteria[PUNC_REGEX] /= NoRegex
            table == criteria[PUNC_DICT]
        IN  /\ present <=> (/\ prefs.output_orientation /= 0
                             /\ prefs.update_punctuation
                             /\ KeptMarks /= {})
            /\ present <=> (DOMAIN table /= {})
            /\ present => criteria[PUNC_REGEX] = Regex(DOMAIN table)
            /\ (present /\ prefs.output_orientation = 2) =>
                    /\ DOMAIN table = KeptMarks
                    /\ \A m \in KeptMarks : table[m] = _h2v_master_dict[m]
            /\ (present /\ prefs.output_orientation = 1) =>
                    /\ DOMAIN table = {_h2v_master_dict[m] : m \in KeptMarks}
                    /\ \A m \in KeptMarks : table[_h2v_master_dict[m]] = m
            /\ \A m \in prefs.punc_omits :
                    m \notin DOMAIN table /\ _h2v_master_dict[m] \notin DOMAIN table

\* the default omissions with vertical text: a kept mark is in the table and
\* an omitted one is not
C16_Witness ==
    /\ pc = "criteria"
    /\ prefs.punc_omits = PUNC_OMITS
    /\ prefs.output_orientation = 2
    /\ prefs.update_punctuation
    /\ criteria[PUNC_REGEX] /= NoRegex
    /\ criteria[PUNC_DICT]["U300C"] = "UFE41"
    /\ "U3002" \notin DOMAIN criteria[PUNC_DICT]

-----------------------------------------------------------------------------
(* SpecFlow: set_flow_direction applied, and applied again to its own       *)
(* result, on every stylesheet collection below                             *)

\* how often set_flow_direction is applied to a book
MaxApplications == 2

\* the stylesheet process_files adds to a book that has none
AddedStyleSheet == <<[id |-> "css", href |-> "Styles/stylesheet.css", sheet |-> <<>>]>>

\* one sheet whose body rule has some of the writing-mode properties at the
\* vertical value already
PartlyVertical ==
    {<<[id |-> "c1", href |-> "Styles/a.css",
        sheet |-> <<[selectors |-> <<"body">>,
                     style |-> [p \in WritingModeProps \cup LineBreakProps |->
                                   IF p \in have THEN "vertical-rl"
                                   ELSE IF p \in LineBreakProps THEN "normal"
                                   ELSE ""]]>>]>> :
        have \in SUBSET WritingModeProps}

\* the books set_flow_direction is applied to: process_files calls it only
\* once the book has a stylesheet
FlowBooks ==
    {[text |-> <<>>, toc |-> CHOOSE t \in TocDocs : TRUE,
      metadata |-> CHOOSE m \in Metadatas : TRUE, css |-> css, ppd |-> ppd,
      selected |-> <<>>] :
        css \in (StyleSheets \ {<<>>}) \cup {AddedStyleSheet} \cup PartlyVertical,
        ppd \in {None, "ltr", "rtl"}}

FlowPrefs == {Prefs(0, 0, 0, 0, FALSE, 0, ori, FALSE, PUNC_OMITS) : ori \in {1, 2}}

\* the calls of set_flow_direction that have returned
Applications == Cardinality({i \in 1..Len(log) : log[i].op = "set_flow_direction"})

InitFlow ==
    /\ pc = "flow"
    /\ prefs \in FlowPrefs
    /\ criteria = getCriteria(prefs)
    /\ bk \in FlowBooks
    /\ configuration = None
    /\ language_code = None
    /\ parser = NewParser
    /\ rawdata = <<>>
    /\ htmlstr = <<>>
    /\ lastSentinel = "none"
    /\ filesChanged = FALSE
    /\ changed_files = <<>>
    /\ dlg = NoDialog
    /\ sel_pos = 0
    /\ dialogs = <<>>
    /\ log = <<>>

SetFlowDirection ==
    /\ pc = "flow"
    /\ Applications < MaxApplications
    /\ \E d \in {set_flow_direction(bk, criteria, changed_files, log)} :
        /\ bk' = d.bk
        /\ changed_files' = d.changed_files
        /\ log' = Append(d.log, Returned("set_flow_direction", d.fileChanged))
    /\ UNCHANGED <<pc, criteria, configuration, language_code, parser, prefs,
                   filesChanged, dlg, sel_pos, dialogs, feedvars>>

NextFlow == SetFlowDirection

SpecFlow == InitFlow /\ [][NextFlow]_vars

-----------------------------------------------------------------------------
(* Properties of set_flow_direction (SpecFlow) *)

\* a step in which set_flow_direction is applied
FlowStep == pc = "flow" /\ log' /= log

\* the writing-mode and line-break values the orientation asks for
RequestedWritingMode == IF criteria[OUTPUT_ORIENTATION] = 2 THEN "vertical-rl" ELSE "horizontal-tb"

RequestedLineBreak == IF criteria[OUTPUT_ORIENTATION] = 2 THEN "normal" ELSE "auto"

\* a rule with the five properties at the requested values
Directed(rule) ==
    [rule EXCEPT !.style = [p \in DOMAIN rule.style |->
        IF p \in {"writing-mode", "-epub-writing-mode", "-webkit-writing-mode"}
        THEN RequestedWritingMode ELSE RequestedLineBreak]]

\* some sheet of the collection has a rule with the selector
HasRule(css, selectorText) ==
    \E i \in 1..Len(css) : RulesWith(css[i].sheet, selectorText) /= {}

\* the collection with exactly the rules of the selector directed
DirectedWhere(css, selectorText) ==
    [i \in 1..Len(css) |->
        [css[i] EXCEPT !.sheet = [j \in 1..Len(css[i].sheet) |->
            IF j \in RulesWith(css[i].sheet, selectorText)
            THEN Directed(css[i].sheet[j]) ELSE css[i].sheet[j]]]]

\* C17: set_flow_direction modifies rules in strict priority over the whole
\* collection: the rules selecting .calibre are updated if any sheet has one,
\* and then no other rule is touched and nothing is injected; the body rules
\* are updated only if no sheet has a .calibre rule; a body rule is injected
\* only if no sheet has a .calibre or a body rule, and then every sheet gains
\* exactly one new body rule with the requested writing-mode (and both
\* prefixed variants) and line-break (and its prefixed variant).
C17_RulePriority ==
    [][FlowStep =>
          bk'.css =
              IF HasRule(bk.css, ".calibre") THEN DirectedWhere(bk.css, ".calibre")
              ELSE IF HasRule(bk.css, "body") THEN DirectedWhere(bk.css, "body")
              ELSE [i \in 1..Len(bk.css) |->
                      [bk.css[i] EXCEPT !.sheet =
                          Append(@, [selectors |-> <<"body">>,
                                     style |-> Directed(StyleRule(<<"body">>, "", "")).style])]]
      ]_vars

\* a .calibre rule in one sheet was directed and the body rule of the other
\* sheet left alone
C17_Witness ==
    /\ pc = "flow"
    /\ Applications = 1
    /\ Len(bk.css) = 2
    /\ bk.css[1].sheet = <<Directed(StyleRule(<<".calibre">>, "", ""))>>
    /\ bk.css[2].sheet = <<StyleRule(<<"body">>, "", "")>>

\* what a step adds to the history and to changed_files
NewCalls == SubSeq(log', Len(log) + 1, Len(log'))

NewChangedFiles == SubSeq(changed_files', Len(changed_files) + 1, Len(changed_files'))

\* C18: a stylesheet is written back and listed as touched only if at least
\* one of its writing-mode / line-break properties changed value; applying
\* set_flow_direction a second time with the same orientation to its own
\* result rewrites no property, writes no stylesheet, adds nothing to the
\* touched list and returns false.
C18_ChangeDetection ==
    [][FlowStep =>
          /\ \A i \in 1..Len(bk.css) :
                (\/ \E c \in 1..Len(NewCalls) : NewCalls[c] = Call("writefile", bk.css[i].id)
                 \/ \E f \in 1..Len(NewChangedFiles) : NewChangedFiles[f] = bk.css[i].href)
                => bk'.css[i].sheet /= bk.css[i].sheet
          /\ Applications >= 1 =>
                /\ bk' = bk
                /\ NewChangedFiles = <<>>
                /\ \A c \in 1..Len(NewCalls) : NewCalls[c].op /= "writefile"
                /\ NewCalls[Len(NewCalls)] = Returned("set_flow_direction", FALSE)
      ]_vars

\* the first application wrote a stylesheet and the second returned false
C18_Witness ==
    /\ pc = "flow"
    /\ Applications = 2
    /\ changed_files /= <<>>
    /\ log[Len(log)] = Returned("set_flow_direction", FALSE)
    /\ \E c \in 1..Len(log) : log[c].op = "writefile"

-----------------------------------------------------------------------------
(* Properties of the whole-book run (SpecRun), continued *)

\* process_files has returned from a whole-book run
WholeBookRan ==
    /\ pc \in {"report", "done"}
    /\ prefs.input_source = 0
    /\ configuration /= "unsupported_conversion"

\* the step in which process_files calls set_flow_direction
DirectionStep == pc = "progress" /\ pc' = "report" /\ prefs.output_orientation /= 0

\* the flag set_flow_direction returned in that step
DirectionChanged == log'[Len(log')] = Returned("set_flow_direction", TRUE)

\* the page progression after a whole-book run, and the book under NoChange
DirectionFollowsOrientation ==
    /\ [](WholeBookRan =>
            /\ prefs.output_orientation = 1 => bk.ppd = "ltr"
            /\ prefs.output_orientation = 2 => bk.ppd = "rtl")
    /\ [][prefs.output_orientation = 0 => (bk'.ppd = bk.ppd /\ bk'.css = bk.css)]_vars

\* C19 as stated: after a whole-book run with orientation Horizontal the page
\* progression is ltr and with Vertical rtl; with NoChange the page
\* progression and every stylesheet are left as they were;
\* set_flow_direction reports a change exactly when the previous page
\* progression differed from the new one.
C19_DirectionAsStated ==
    /\ DirectionFollowsOrientation
    /\ [][DirectionStep => (DirectionChanged <=> bk.ppd /= bk'.ppd)]_vars

\* C19 amended: after a whole-book run with orientation Horizontal the page
\* progression is ltr and with Vertical rtl; with NoChange the page
\* progression and every stylesheet are left as they were;
\* set_flow_direction returns true exactly when the previous page
\* progression differed from the new one or a stylesheet was written.
C19_Direction ==
    /\ DirectionFollowsOrientation
    /\ [][DirectionStep =>
            (DirectionChanged <=>
                \/ bk.ppd /= bk'.ppd
                \/ \E c \in 1..Len(NewCalls) : NewCalls[c].op = "writefile")]_vars

\* a vertical whole-book run, cancelled before its first document, on a book
\* whose stylesheet had to be written
C19_Witness ==
    /\ pc = "done"
    /\ prefs.input_source = 0
    /\ prefs.output_orientation = 2
    /\ configuration /= "unsupported_conversion"
    /\ dlg.wasCanceled /\ dlg.i = 0
    /\ bk.ppd = "rtl"
    /\ \E c \in 1..Len(log) : log[c] = Returned("set_flow_direction", TRUE)
    /\ \E c \in 1..Len(log) : log[c] = Call("writefile", "c1")

\* the whole-book loop has been entered
InWholeBookLoop ==
    /\ pc \in {"progress", "report", "done"}
    /\ prefs.input_source = 0
    /\ configuration /= "unsupported_conversion"

\* the transformation of a document raises in this step
Raises == \E c \in 1..Len(NewCalls) : NewCalls[c].op = "raise"

\* the step in which do_action takes up the next document and the
\* transformation returns
DocumentStep ==
    /\ pc = "progress"
    /\ dlg.open /\ ~dlg.wasCanceled
    /\ dlg.i < dlg.total_count
    /\ dlg'.i = dlg.i + 1
    /\ ~Raises

\* the document do_action takes up
NextDocument == dlg.file_list[dlg.i + 1].id

\* C20: in the whole-book per-file loop cancellation is examined only
\* between documents: a document whose transformation has started is
\* finished and, if changed, written; once a cancellation is observed no
\* remaining text document is read, transformed or written, and documents
\* written before keep their new content.
C20_CancelBetweenDocuments ==
    [][/\ DocumentStep =>
            LET data == readfile(bk, NextDocument)
                out == processText(parser, data, criteria).htmlstr
            IN  /\ readfile(bk', NextDocument) = out
                /\ NewCalls[1] = Call("processText", NextDocument)
                /\ out /= data => NewCalls = <<Call("processText", NextDocument),
                                               Call("writefile", NextDocument)>>
       /\ (InWholeBookLoop /\ dlg.wasCanceled) =>
            /\ bk'.text = bk.text
            /\ dlg'.i = dlg.i
            /\ \A c \in 1..Len(NewCalls) :
                    /\ NewCalls[c].op /= "processText"
                    /\ NewCalls[c].op = "writefile" =>
                            id_to_mime(bk', NewCalls[c].target) = "text/css"
      ]_vars

\* cancelled after the first of two documents: the first was rewritten, the
\* second is as it was
C20_Witness ==
    /\ pc = "done"
    /\ prefs.input_source = 0
    /\ configuration /= "unsupported_conversion"
    /\ dlg.wasCanceled
    /\ dlg.i = 1 /\ dlg.total_count = 2
    /\ ~dlg.clean
    /\ bk.text[1].data /= TextZh
    /\ bk.text[2].data = TextSelected

\* the step in which the selected-files loop takes up a text document
SelectedStep ==
    /\ pc = "process_files"
    /\ criteria[INPUT_SOURCE] \in {1, 2}
    /\ sel_pos' = sel_pos + 1
    /\ id_to_mime(bk, bk.selected[sel_pos + 1]) = "application/xhtml+xml"

\* the document the selected-files loop takes up
NextSelected == bk.selected[sel_pos + 1]

\* the step in which set_metadata_toc handles the table of contents
TocStep ==
    /\ pc = "process_files"
    /\ pc' = "progress"
    /\ criteria[CONVERSION_TYPE] /= 0

\* the documents written back in this step
NewWrites == {NewCalls[c].target : c \in {d \in 1..Len(NewCalls) : NewCalls[d].op = "writefile"}}

\* the text documents and the table of contents of the book
Documents == {bk.text[i].id : i \in 1..Len(bk.text)} \cup {bk.toc.id}

\* C21: in every processing path (selected files, whole-book text
\* documents, table of contents) a document is written back to the
\* container if and only if the transformer's output differs from the
\* content that was read, and its reference is appended to the
\* changed-files list in exactly that case.
C21_WrittenIffChanged ==
    [][/\ SelectedStep =>
            LET data == readfile(bk, NextSelected)
                out == processText(parser, data, criteria).htmlstr
            IN  /\ NewWrites = IF out /= data THEN {NextSelected} ELSE {}
                /\ readfile(bk', NextSelected) = out
                /\ NewChangedFiles = IF out /= data
                                     THEN <<id_to_href(bk, NextSelected)>> ELSE <<>>
       /\ DocumentStep =>
            LET data == readfile(bk, NextDocument)
                out == processText(parser, data, criteria).htmlstr
            IN  /\ NewWrites = IF out /= data THEN {NextDocument} ELSE {}
                /\ readfile(bk', NextDocument) = out
                /\ dlg'.changed_files = IF out /= data
                                        THEN Append(dlg.changed_files,
                                                    id_to_href(bk, NextDocument))
                                        ELSE dlg.changed_files
       /\ TocStep =>
            LET data == readfile(bk, bk.toc.id)
                out == processText(parser, data, criteria).htmlstr
            IN  /\ NewWrites = IF out /= data THEN {bk.toc.id} ELSE {}
                /\ readfile(bk', bk.toc.id) = out
                /\ NewChangedFiles = IF out /= data THEN <<bk.toc.href>> ELSE <<>>
       /\ (pc = "progress" /\ pc' = "report") =>
            SubSeq(changed_files', 1, Len(changed_files) + Len(dlg.changed_files))
                = changed_files \o dlg.changed_files
       /\ ~(SelectedStep \/ DocumentStep \/ TocStep) => NewWrites \cap Documents = {}
      ]_vars

\* a selected-files run over two documents: one was rewritten and
\* listed, the other came out as it went in and was neither written nor
\* listed
C21_Witness ==
    /\ pc = "done"
    /\ prefs.input_source \in {1, 2}
    /\ bk.selected = <<"t2", "t1">>
    /\ \E a, b \in {"t1", "t2"} :
        /\ a /= b
        /\ changed_files = <<id_to_href(bk, a)>>
        /\ \E c \in 1..Len(log) : log[c] = Call("writefile", a)
        /\ \E c \in 1..Len(log) : log[c] = Call("processText", b)
        /\ ~\E c \in 1..Len(log) : log[c] = Call("writefile", b)

\* the close tag of the head as handle_endtag writes it
CloseHead == <<"</", "head", ">">>

\* how often the fragment occurs in the text
Count(fragment, text) ==
    Cardinality({i \in 1..Len(text) :
                    /\ i + Len(fragment) - 1 <= Len(text)
                    /\ SubSeq(text, i, i + Len(fragment) - 1) = fragment})

\* the text with one stylesheet link put immediately before each </head>
RECURSIVE InsertLinks(_)
InsertLinks(text) ==
    IF text = <<>> THEN <<>>
    ELSE IF Len(text) >= 3 /\ SubSeq(text, 1, 3) = CloseHead
    THEN StylesheetLink \o CloseHead \o InsertLinks(SubSeq(text, 4, Len(text)))
    ELSE <<Head(text)>> \o InsertLinks(Tail(text))

\* the run added the stylesheet the book lacked
StylesheetAdded == \E c \in 1..Len(log) : log[c] = Call("addfile", "css")

\* the document comes out of this step as the transformer without the force
\* flag leaves it, with the links put in when they are due
LinkedAsDue(ident, due) ==
    LET data == readfile(bk, ident)
        out == readfile(bk', ident)
        plain == processText([parser EXCEPT !.force_stylesheet = FALSE], data,
                             criteria).htmlstr
    IN  /\ out = IF due THEN InsertLinks(plain) ELSE plain
        /\ Count(StylesheetLink, out) = Count(StylesheetLink, data)
                                        + (IF due THEN Count(CloseHead, data) ELSE 0)

\* C22: a stylesheet <link> element is inserted into a document only during
\* a whole-book run with an orientation policy other than NoChange that
\* started with a book owning no stylesheet; in such a run exactly one link
\* is inserted immediately before each </head> close tag of every processed
\* text document, and the force flag is false again when the pass ends, so
\* that no document processed afterwards (or in a selected-files run)
\* receives a link.
C22_StylesheetLink ==
    [][/\ (pc = "process_files" /\ pc' = "progress") =>
            LET lacking == criteria[OUTPUT_ORIENTATION] /= 0 /\ Len(bk.css) = 0
            IN  /\ parser'.force_stylesheet <=> lacking
                /\ (Call("addfile", "css") \in {NewCalls[c] : c \in 1..Len(NewCalls)})
                        <=> lacking
       /\ SelectedStep => LinkedAsDue(NextSelected, FALSE)
       /\ TocStep => LinkedAsDue(bk.toc.id, FALSE)
       /\ DocumentStep => LinkedAsDue(NextDocument, StylesheetAdded)
       /\ pc \in {"dialog", "process_files"} => ~parser.force_stylesheet
       /\ pc' \in {"report", "done", "failed"} => ~parser'.force_stylesheet
      ]_vars

\* a vertical whole-book run on a book without a stylesheet: the document
\* with two </head> close tags has a link before each, and the flag is off
\* again
C22_Witness ==
    /\ pc = "done"
    /\ prefs.input_source = 0
    /\ prefs.output_orientation = 2
    /\ StylesheetAdded
    /\ bk.text[1].data = InsertLinks(TextHead)
    /\ Count(StylesheetLink, bk.text[1].data) = 2
    /\ ~parser.force_stylesheet

\* a transformation has raised earlier in this run
Raised == \E c \in 1..Len(log) : log[c].op = "raise"

\* the message box of the except clause of _ok_clicked
FailureBox == MessageBox("Critical", "Failed", 0)

\* the message boxes of the else clause of _ok_clicked
ReportTitles == {"Changed Files", "No Changes"}

\* C23: when transforming the k-th document of a run fails, the run is
\* aborted: no document after the k-th is read or written, the k-th document
\* is not written, documents 1..k-1 keep whatever content was written to
\* them, the failure is reported to the user, and neither the 'files
\* converted' nor the 'no changes' report is shown.
C23_FailureAbortsRun ==
    [][/\ Raises =>
            /\ bk' = bk
            /\ dialogs' = Append(dialogs, FailureBox)
       /\ Raised =>
            /\ bk'.text = bk.text /\ bk'.toc = bk.toc
            /\ \A c \in 1..Len(NewCalls) :
                    NewCalls[c].op \in {"processText", "writefile"}
                        => NewCalls[c].target \notin Documents
            /\ \A d \in 1..Len(dialogs') : dialogs'[d].title \notin ReportTitles
      ]_vars

\* a selected-files run whose second document fails: the first document was
\* written, the second is as it was, the failure box is the only one shown
C23_SelectedWitness ==
    /\ pc = "failed"
    /\ prefs.input_source = 1
    /\ bk.selected = <<"t2", "t1">>
    /\ log[Len(log)] = Call("raise", "t1")
    /\ \E c \in 1..Len(log) : log[c] = Call("writefile", "t2")
    /\ bk.text[1].data = TextZh
    /\ dialogs = <<FailureBox>>

\* a whole-book run whose first document failed inside do_action and was
\* then cancelled: no failure box was shown and the run went on to its report
C23_WholeBookWitness ==
    /\ pc = "done"
    /\ prefs.input_source = 0
    /\ \E c \in 1..Len(log) : log[c] = Call("raise", "t1")
    /\ dlg.wasCanceled
    /\ \A d \in 1..Len(dialogs) : dialogs[d] /= FailureBox
    /\ \E d \in 1..Len(dialogs) : dialogs[d].title \in ReportTitles

\* C24: in a whole-book run the document-metadata language field is
\* replaced by the resolved language tag only when that tag is not None and
\* the field's current value reads as a Chinese-family tag; when the
\* resolved tag is None or the field holds a non-Chinese tag, the field
\* keeps its value.
C24_LanguageField ==
    [][(InWholeBookLoop' /\ bk'.metadata.language /= bk.metadata.language) =>
            /\ language_code /= None
            /\ bk.metadata.language \in ZhLanguages
            /\ bk'.metadata.language = language_code
      ]_vars

\* a whole-book TradToSimp Mainland->Japan run on a book whose language
\* field was zh: the resolved tag is None and the field now reads None
C24_Witness ==
    /\ pc = "done"
    /\ prefs.input_source = 0
    /\ configuration = "t2jp"
    /\ language_code = None
    /\ bk.metadata.language = None

\* the step in which a call of processText begins
BeginStep == pc = "ready" /\ pc' = "feeding"

\* the step in which the returned string goes through processText again,
\* the parser being as the first call left it
AgainStep == pc = "returned" /\ pc' = "reprocessed"

\* the parser with the flag and the buffer as given
LeftBy(self, flag, buffer) == [self EXCEPT !.converting = flag, !.result = buffer]

\* C25: at the start of every processText call the converting flag and the
\* output buffer depend only on that call's criteria (flag false for
\* SelectedTextRegion, true otherwise; buffer empty), never on earlier
\* calls: a document that ends inside an open start sentinel does not cause
\* text before the first start sentinel of the next document to be
\* rewritten, and during a call the flag changes only at sentinel comments,
\* and only when the input source is SelectedTextRegion.
C25_FreshStart ==
    [][/\ BeginStep =>
            /\ parser'.converting = (criteria[INPUT_SOURCE] /= 2)
            /\ parser'.result = <<>>
       /\ AgainStep =>
            /\ Len(parser'.result) = Len(rawdata')
            /\ htmlstr' = Join(parser'.result)
            /\ parser.converting /= (criteria[INPUT_SOURCE] /= 2) =>
                    processText(LeftBy(parser, criteria[INPUT_SOURCE] /= 2, <<>>), htmlstr,
                                criteria).htmlstr = htmlstr'
            /\ (criteria[INPUT_SOURCE] = 2 /\ rawdata' /= <<>> /\ rawdata'[1].kind = "data") =>
                    SubSeq(htmlstr', 1, Len(rawdata'[1].data)) = rawdata'[1].data
       /\ (FeedStep /\ parser'.converting /= parser.converting) =>
            /\ FedNode.kind = "comment"
            /\ strip(FedNode.data) \in {<<seltext_start_tag>>, <<seltext_end_tag>>}
            /\ criteria[INPUT_SOURCE] = 2
      ]_vars

\* a SelectedTextRegion document of Chinese text followed by a start
\* sentinel was processed twice: the first call ended with the flag set, and
\* the second call left the text before the sentinel as it was
C25_Witness ==
    /\ pc = "reprocessed"
    /\ criteria[INPUT_SOURCE] = 2
    /\ criteria[CONVERSION_TYPE] /= 0
    /\ Len(rawdata) = 2
    /\ rawdata[1].kind = "data" /\ rawdata[1].data = <<"U8ECA">>
    /\ rawdata[2].kind = "comment" /\ strip(rawdata[2].data) = <<seltext_start_tag>>
    /\ htmlstr = DocText(rawdata)
    /\ parser.converting

-----------------------------------------------------------------------------
(* SpecLoop: whole-book runs in which every transformation returns, with the
   event loop running the do_action it has been handed by
   QTimer.singleShot(0, ...) *)

LoopPrefs == {p \in RunPrefs : p.input_source = 0 /\ p.quotation_type = 0}

LoopBooks == {book \in Books : book.selected = <<"t1">> /\ book.ppd = None}

InitLoop ==
    /\ InitRun
    /\ prefs \in LoopPrefs
    /\ bk \in LoopBooks

NextLoop ==
    \/ OkClicked
    \/ WholeBookBegin
    \/ DoAction
    \/ Cancel
    \/ WholeBookEnd
    \/ Report

\* the event loop runs the do_action that QTimer.singleShot(0, ...) handed
\* it: what one call of do_action does to the dialog
do_action_scheduled ==
    /\ pc = "progress"
    /\ dlg.open /\ dlg.scheduled
    /\ IF dlg.wasCanceled \/ dlg.i >= dlg.total_count
       THEN dlg' = [dlg EXCEPT !.open = FALSE, !.scheduled = FALSE]
       ELSE \E changed \in BOOLEAN :
                dlg' = IF changed
                       THEN [dlg EXCEPT !.i = @ + 1, !.value = dlg.i + 1, !.clean = FALSE,
                                        !.changed_files =
                                            Append(@, dlg.file_list[dlg.i + 1].href)]
                       ELSE [dlg EXCEPT !.i = @ + 1, !.value = dlg.i + 1]

SpecLoop == InitLoop /\ [][NextLoop]_vars /\ WF_dlg(do_action_scheduled)

\* the text documents whose transformation has returned, in the order of
\* the calls
HandledDocuments ==
    LET calls == SelectSeq(log, LAMBDA c : c.op = "processText" /\ c.target /= bk.toc.id)
    IN  [j \in 1..Len(calls) |-> calls[j].target]

\* the text documents in the order bk.text_iter() enumerates them
Enumeration == [j \in 1..Len(bk.text) |-> bk.text[j].id]

C26_CancelWitness ==
    /\ pc = "progress"
    /\ ~dlg.open /\ dlg.wasCanceled
    /\ HandledDocuments = <<"t1">>
    /\ dlg.total_count = 2

\* the run has changed something in the container: a text document or the
\* table of contents was written, the metadata were written, a stylesheet
\* was created or written, or the page-progression direction was set to a
\* new value (with no stylesheet written, set_flow_direction returns true
\* for that reason alone)
ContainerChanged ==
    \/ \E c \in 1..Len(log) : log[c].op \in {"writefile", "setmetadataxml", "addfile"}
    \/ \E c \in 1..Len(log) : log[c] = Returned("set_flow_direction", TRUE)

\* C27: at the end of every run that raised no error, the filesChanged flag
\* (which selects between the 'files have been converted' report and the
\* 'No changes made' report) is true if and only if the run changed
\* something in the container: a text document, the table of contents, the
\* metadata, a stylesheet (created or rewritten) or the page-progression
\* direction.
C27_FilesChangedFlag ==
    (pc \in {"report", "done"} /\ ~Raised /\ configuration /= "unsupported_conversion")
        => (filesChanged <=> ContainerChanged)

\* a whole-book run wrote the table of contents and nothing else, and
\* reported that no changes were made
C27_Witness ==
    /\ pc = "done"
    /\ prefs.input_source = 0
    /\ ~Raised
    /\ \E c \in 1..Len(log) : log[c] = Call("writefile", bk.toc.id)
    /\ \A c \in 1..Len(log) :
            log[c].op \in {"writefile", "setmetadataxml", "addfile"}
                => log[c] = Call("writefile", bk.toc.id)
    /\ ~filesChanged
    /\ dialogs = <<MessageBox("Information", "No Changes", 0)>>

\* C29: in a whole-book run, once the per-file loop has observed the user's
\* cancellation, nothing further in the container is modified by that run:
\* no stylesheet is rewritten or given a new rule and the page-progression
\* direction is not changed.
C29_NothingAfterCancel ==
    [][(InWholeBookLoop /\ dlg.wasCanceled /\ ~dlg.open) =>
            /\ bk'.css = bk.css
            /\ bk'.ppd = bk.ppd
            /\ \A c \in 1..Len(NewCalls) :
                    NewCalls[c].op \notin {"writefile", "setspine_ppd"}
      ]_vars

\* a vertical whole-book run was cancelled before its first document; the
\* stylesheet was rewritten and the page-progression direction set all the
\* same
C29_Witness ==
    /\ pc = "done"
    /\ prefs.input_source = 0
    /\ prefs.output_orientation = 2
    /\ dlg.wasCanceled /\ dlg.i = 0
    /\ ~Raised
    /\ bk.ppd = "rtl"
    /\ log[Len(log)] = Returned("set_flow_direction", TRUE)
    /\ \E c \in 1..Len(log) : log[c] = Call("writefile", "c1")
    /\ \E c \in 1..Len(log) : log[c] = Call("setspine_ppd", "rtl")

\* C30: at the end of any run the changed-files list contains each file
\* reference at most once, so the number reported as 'A total of N files
\* have been converted' equals the number of distinct files written during
\* the run.
C30_ChangedFilesDistinct ==
    (pc \in {"report", "done"}) =>
        /\ \A a, b \in 1..Len(changed_files) :
                changed_files[a] = changed_files[b] => a = b
        /\ \A d \in 1..Len(dialogs) :
                dialogs[d].title = "Changed Files" =>
                    dialogs[d].n = Cardinality({changed_files[a] : a \in 1..Len(changed_files)})

\* a vertical whole-book run on a book whose one stylesheet holds two
\* .calibre rules: the stylesheet is listed twice and counted twice
C30_Witness ==
    /\ pc = "done"
    /\ prefs.input_source = 0
    /\ prefs.output_orientation = 2
    /\ Len(bk.css) = 1
    /\ Cardinality({a \in 1..Len(changed_files) : changed_files[a] = bk.css[1].href}) = 2
    /\ \E d \in 1..Len(dialogs) :
            /\ dialogs[d].title = "Changed Files"
            /\ dialogs[d].n > Cardinality({changed_files[a] : a \in 1..Len(changed_files)})

=============================================================================
